---- MODULE Spec2Model ----
(***************************************************************************)
(* A model of the DDoS log analyser: the record normalizer (parseCSVLogs   *)
(* and StreamingCSVProcessor.normalizeLogEntry), the window grouper        *)
(* (groupByIPAndTime), the rule engine with the label overlay and the      *)
(* flagging/ranking pass (analyzeLogsForDDoS), and the streaming adapter   *)
(* (StreamingCSVProcessor.process).                                        *)
(*                                                                         *)
(* JavaScript strings are sequences of one-character strings, so that      *)
(* trim, toLowerCase, includes, the regular expressions and the template   *)
(* string that builds a window key are computed and not assumed.           *)
(***************************************************************************)
EXTENDS Integers, Sequences, FiniteSets, TLC

\* ------------------------------------------------------------------ bounds

\* The longest record list handed to analyzeLogsForDDoS.
MaxRecords == 3
\* The longest raw input file (rows after the header).
MaxRows == 3
\* The largest batchSize option given to StreamingCSVProcessor.
MaxBatchSize == 2

\* The most read streams one processor creates.
MaxRuns == 2
\* The most calls of process() on one processor.
MaxCalls == 2

\* The largest maxRetries a caller of queryLLM passes in its options.
MaxRetriesOption == 2
\* The most agents CONFIG.LLM_AGENTS is given.
MaxAgents == 2

\* ----------------------------------------------------------------- strings

Range(s) == {s[i] : i \in 1..Len(s)}

UpperChars ==
  <<"A","B","C","D","E","F","G","H","I","J","K","L","M",
    "N","O","P","Q","R","S","T","U","V","W","X","Y","Z">>
LowerChars ==
  <<"a","b","c","d","e","f","g","h","i","j","k","l","m",
    "n","o","p","q","r","s","t","u","v","w","x","y","z">>
DigitChars == <<"0","1","2","3","4","5","6","7","8","9">>
WhiteSpace == {" ", "\t"}

IndexIn(c, table) == CHOOSE i \in 1..Len(table) : table[i] = c

UpperSet == Range(UpperChars)
LowerSet == Range(LowerChars)
DigitSet == Range(DigitChars)
LowerOf == [c \in UpperSet |-> LowerChars[IndexIn(c, UpperChars)]]
UpperOf == [c \in LowerSet |-> UpperChars[IndexIn(c, LowerChars)]]
DigitValue == [c \in DigitSet |-> IndexIn(c, DigitChars) - 1]

ToLowerChar(c) == IF c \in UpperSet THEN LowerOf[c] ELSE c
ToUpperChar(c) == IF c \in LowerSet THEN UpperOf[c] ELSE c

\* String.prototype.toLowerCase / toUpperCase
toLowerCase(s) == [i \in 1..Len(s) |-> ToLowerChar(s[i])]
toUpperCase(s) == [i \in 1..Len(s) |-> ToUpperChar(s[i])]

\* String.prototype.includes
includes(s, pat) ==
  \E i \in 0..(Len(s) - Len(pat)) : SubSeq(s, i + 1, i + Len(pat)) = pat

\* A regular expression anchored with ^ followed by a literal.
StartsWith(s, pre) == Len(s) >= Len(pre) /\ SubSeq(s, 1, Len(pre)) = pre

RECURSIVE TrimStart(_)
TrimStart(s) ==
  IF s # <<>> /\ s[1] \in WhiteSpace THEN TrimStart(Tail(s)) ELSE s

RECURSIVE TrimEnd(_)
TrimEnd(s) ==
  IF s # <<>> /\ s[Len(s)] \in WhiteSpace
    THEN TrimEnd(SubSeq(s, 1, Len(s) - 1))
    ELSE s

\* String.prototype.trim
trim(s) == TrimEnd(TrimStart(s))

\* ----------------------------------------------------------------- numbers

\* A JavaScript number as far as the program tells them apart: NaN, or a
\* decimal num / den with den a power of ten (den = 1 for an integer), or
\* Infinity, the quotient of a positive number and 0.
NaN == [nan |-> TRUE, num |-> 0, den |-> 1]
Infinity == [nan |-> FALSE, num |-> 1, den |-> 0]
Num(n) == [nan |-> FALSE, num |-> n, den |-> 1]
Dec(n, d) == [nan |-> FALSE, num |-> n, den |-> d]

\* ToBoolean of a number: NaN and 0 are falsy.
Truthy(x) == ~x.nan /\ x.num # 0

\* x || dflt  for numbers
OrDefault(x, dflt) == IF Truthy(x) THEN x ELSE dflt

RECURSIVE TakeDigits(_)
TakeDigits(s) ==
  IF s # <<>> /\ s[1] \in DigitSet
    THEN <<s[1]>> \o TakeDigits(Tail(s))
    ELSE <<>>

RECURSIVE DigitsToNat(_)
DigitsToNat(ds) ==
  IF ds = <<>> THEN 0
  ELSE 10 * DigitsToNat(SubSeq(ds, 1, Len(ds) - 1))
         + DigitValue[ds[Len(ds)]]

RECURSIVE Pow10(_)
Pow10(k) == IF k = 0 THEN 1 ELSE 10 * Pow10(k - 1)

\* A raw CSV cell: absent (the column is not in the row: undefined) or text.
Absent == [present |-> FALSE, text |-> <<>>]
Cell(s) == [present |-> TRUE, text |-> s]

HasSign(t) == t # <<>> /\ t[1] \in {"+", "-"}
Unsigned(t) == IF HasSign(t) THEN Tail(t) ELSE t
SignOf(t) == IF t # <<>> /\ t[1] = "-" THEN -1 ELSE 1

\* parseInt(cell): leading white space is skipped, then an optional sign and
\* the longest run of decimal digits; NaN when there is no digit (and for
\* undefined, which reads as the text "undefined"). Hexadecimal prefixes are
\* outside the inputs drawn here.
parseInt(cell) ==
  IF ~cell.present THEN NaN
  ELSE LET t  == TrimStart(cell.text)
           ds == TakeDigits(Unsigned(t))
       IN IF ds = <<>> THEN NaN ELSE Num(SignOf(t) * DigitsToNat(ds))

\* parseFloat(cell): as parseInt, with an optional fraction after a point.
\* Exponents and the literal Infinity are outside the inputs drawn here.
parseFloat(cell) ==
  IF ~cell.present THEN NaN
  ELSE LET t    == TrimStart(cell.text)
           u    == Unsigned(t)
           ip   == TakeDigits(u)
           rest == SubSeq(u, Len(ip) + 1, Len(u))
           fp   == IF rest # <<>> /\ rest[1] = "."
                     THEN TakeDigits(Tail(rest)) ELSE <<>>
       IN IF ip = <<>> /\ fp = <<>> THEN NaN
          ELSE Dec(SignOf(t) * (DigitsToNat(ip) * Pow10(Len(fp)) + DigitsToNat(fp)),
                   Pow10(Len(fp)))

RECURSIVE NatToString(_)
NatToString(n) ==
  IF n < 10 THEN <<DigitChars[n + 1]>>
  ELSE NatToString(n \div 10) \o <<DigitChars[(n % 10) + 1]>>

\* Number-to-string conversion inside a template string, for an integer or NaN.
NumberToString(x) ==
  IF x.nan THEN <<"N","a","N">>
  ELSE IF x.den = 0 THEN <<"I","n","f","i","n","i","t","y">>
  ELSE IF x.num < 0 THEN <<"-">> \o NatToString(-x.num)
  ELSE NatToString(x.num)

\* ----------------------------------------------------------- configuration

ANALYSIS_WINDOW == 5
HIGH_FREQUENCY_THRESHOLD == 100
MEDIUM_FREQUENCY_THRESHOLD == 50
DEFAULT_BATCH_SIZE == 1000
DEFAULT_MAX_RETRIES == 3
BACKOFF_BASE == 2
BACKOFF_UNIT == 1000

NA == <<"N","/","A">>
UNKNOWN == <<"U","N","K","N","O","W","N">>

SUSPICIOUS_USER_AGENTS ==
  << <<"b","o","t">>,
     <<"c","r","a","w","l","e","r">>,
     <<"s","p","i","d","e","r">>,
     <<"s","c","r","a","p","e","r">>,
     <<"c","u","r","l">>,
     <<"w","g","e","t">>,
     <<"p","y","t","h","o","n">>,
     <<"j","a","v","a">>,
     <<"g","o","-","h","t","t","p","-","c","l","i","e","n","t">>,
     <<"o","k","h","t","t","p">>,
     <<"r","e","q","u","e","s","t","s">>,
     <<"u","r","l","l","i","b">>,
     <<"s","c","r","a","p","y">> >>

SUSPICIOUS_RESPONSE_CODES ==
  << <<"4","2","9">>, <<"5","0","3">>, <<"5","0","2">>, <<"5","0","4">> >>

SUSPICIOUS_METHODS ==
  << <<"H","E","A","D">>,
     <<"O","P","T","I","O","N","S">>,
     <<"T","R","A","C","E">>,
     <<"C","O","N","N","E","C","T">> >>

KNOWN_DDOS_LABELS ==
  << <<"D","r","D","o","S","_","D","N","S">>,
     <<"D","r","D","o","S","_","L","D","A","P">>,
     <<"D","r","D","o","S","_","M","S","S","Q","L">>,
     <<"D","r","D","o","S","_","N","e","t","B","I","O","S">>,
     <<"D","r","D","o","S","_","N","T","P">>,
     <<"D","r","D","o","S","_","S","N","M","P">>,
     <<"D","r","D","o","S","_","S","S","D","P">>,
     <<"D","r","D","o","S","_","U","D","P">>,
     <<"D","r","D","o","S","_","W","e","b","D","D","o","S">>,
     <<"S","y","n">>,
     <<"T","F","T","P">>,
     <<"U","D","P">>,
     <<"U","D","P","-","l","a","g">>,
     <<"W","e","b","D","D","o","S">>,
     <<"L","D","A","P">>,
     <<"M","S","S","Q","L">>,
     <<"N","e","t","B","I","O","S">>,
     <<"N","T","P">>,
     <<"S","N","M","P">>,
     <<"S","S","D","P">> >>

\* SUSPICIOUS_IP_PATTERNS, one disjunct per regular expression:
\*   /^10\./  /^172\.(1[6-9]|2[0-9]|3[0-1])\./  /^192\.168\./
\*   /^127\./  /^0\.0\.0\.0/  /^255\.255\.255\.255/
SUSPICIOUS_IP_PATTERNS(ip) ==
  \/ StartsWith(ip, <<"1","0",".">>)
  \/ /\ StartsWith(ip, <<"1","7","2",".">>)
     /\ Len(ip) >= 7
     /\ \/ ip[5] = "1" /\ ip[6] \in {"6","7","8","9"}
        \/ ip[5] = "2" /\ ip[6] \in DigitSet
        \/ ip[5] = "3" /\ ip[6] \in {"0","1"}
     /\ ip[7] = "."
  \/ StartsWith(ip, <<"1","9","2",".","1","6","8",".">>)
  \/ StartsWith(ip, <<"1","2","7",".">>)
  \/ StartsWith(ip, <<"0",".","0",".","0",".","0">>)
  \/ StartsWith(ip, <<"2","5","5",".","2","5","5",".","2","5","5",".","2","5","5">>)

\* -------------------------------------------------------- record normalizer

\* A faulty normalizer that takes the cell as it is, untrimmed.
TrimOrRaw(cell, dflt) ==
  IF ~cell.present THEN dflt
  ELSE IF cell.text = <<>> THEN dflt ELSE cell.text

\* data[column]?.trim() || dflt
TrimOr(cell, dflt) ==
  IF ~cell.present THEN dflt
  ELSE IF trim(cell.text) = <<>> THEN dflt ELSE trim(cell.text)

\* A faulty object literal that reads the user agent from a column of the
\* row instead of setting it to 'N/A'.
NormalizedFieldsWithAgent(data) ==
  [ timestamp     |-> TrimOr(data.TIMESTAMP, NA),
    sourceIP      |-> TrimOr(data.SOURCE_IP, UNKNOWN),
    destinationIP |-> TrimOr(data.DEST_IP, UNKNOWN),
    requestCount  |-> OrDefault(parseInt(data.FWD_PACKETS), Num(1)).num,
    duration      |-> OrDefault(parseFloat(data.FLOW_DURATION), Num(0)),
    bytes         |-> OrDefault(parseFloat(data.TOTAL_LENGTH), Num(0)),
    label         |-> TrimOr(data.LABEL, NA),
    userAgent     |-> TrimOr(data.USER_AGENT, NA),
    responseCode  |-> NA,
    method        |-> NA,
    path          |-> NA ]

\* The object literal built for one row (the same in parseCSVLogs and in
\* StreamingCSVProcessor.normalizeLogEntry).
NormalizedFields(data) ==
  [ timestamp     |-> TrimOr(data.TIMESTAMP, NA),
    sourceIP      |-> TrimOr(data.SOURCE_IP, UNKNOWN),
    destinationIP |-> TrimOr(data.DEST_IP, UNKNOWN),
    requestCount  |-> OrDefault(parseInt(data.FWD_PACKETS), Num(1)).num,
    duration      |-> OrDefault(parseFloat(data.FLOW_DURATION), Num(0)),
    bytes         |-> OrDefault(parseFloat(data.TOTAL_LENGTH), Num(0)),
    label         |-> TrimOr(data.LABEL, NA),
    userAgent     |-> NA,
    responseCode  |-> NA,
    method        |-> NA,
    path          |-> NA ]

\* A faulty validation that looks at the timestamp alone.
MissingTimestamp(e) == e.timestamp = NA

\* The validation of the required fields: TRUE when the row is skipped.
MissingRequiredFields(e) ==
  \/ e.timestamp = NA
  \/ e.sourceIP = UNKNOWN
  \/ e.destinationIP = UNKNOWN

\* normalizeLogEntry(data, rowNumber): the entry, or null (valid = FALSE).
normalizeLogEntry(data) ==
  [ valid |-> ~MissingRequiredFields(NormalizedFields(data)),
    entry |-> NormalizedFields(data) ]

\* ----------------------------------------------------------- plain objects

\* A plain JavaScript object is a sequence of [k, v] pairs in the order
\* Object.values / Object.entries visit them: keys that are array indices
\* first, in ascending numeric order, then the other keys in insertion order.
\* (An array index is a canonical numeral below 2^32 - 1; numerals of ten
\* digits are outside the inputs drawn here.)
IsArrayIndex(k) ==
  /\ k # <<>>
  /\ \A i \in 1..Len(k) : k[i] \in DigitSet
  /\ (Len(k) = 1 \/ k[1] # "0")
  /\ Len(k) <= 9

ObjHas(obj, k) == \E i \in 1..Len(obj) : obj[i].k = k
ObjIndex(obj, k) == CHOOSE i \in 1..Len(obj) : obj[i].k = k
ObjGet(obj, k) == obj[ObjIndex(obj, k)].v

\* The place a new key takes in the visiting order.
ObjInsertAt(obj, k) ==
  IF IsArrayIndex(k)
    THEN Cardinality({i \in 1..Len(obj) :
                        /\ IsArrayIndex(obj[i].k)
                        /\ DigitsToNat(obj[i].k) < DigitsToNat(k)})
    ELSE Len(obj)

\* obj[k] = v
ObjSet(obj, k, v) ==
  IF ObjHas(obj, k)
    THEN [obj EXCEPT ![ObjIndex(obj, k)].v = v]
    ELSE SubSeq(obj, 1, ObjInsertAt(obj, k))
           \o << [k |-> k, v |-> v] >>
           \o SubSeq(obj, ObjInsertAt(obj, k) + 1, Len(obj))

\* Object.values(obj)
ObjectValues(obj) == [i \in 1..Len(obj) |-> obj[i].v]

\* A Set is the sequence of its members in insertion order.
SetAdd(set, x) == IF x \in Range(set) THEN set ELSE Append(set, x)

\* ------------------------------------------------------------ window grouper

TS_A == <<"1","9","7","0","-","0","1","-","0","1","T","0","0",":","0","0",":","0","0","Z">>
TS_B == <<"1","9","7","0","-","0","1","-","0","1","T","0","0",":","0","4",":","5","9",".","9","9","9","Z">>
TS_C == <<"1","9","7","0","-","0","1","-","0","1","T","0","0",":","0","5",":","0","0","Z">>

\* new Date(timestamp).getTime(): the milliseconds of the ISO timestamps the
\* inputs use; any other text here is not a date and gives NaN.
DateGetTime(ts) ==
  CASE ts = TS_A -> Num(0)
    [] ts = TS_B -> Num(299999)
    [] ts = TS_C -> Num(300000)
    [] OTHER -> NaN

\* Math.floor(t / (windowMinutes * 60 * 1000)) for t >= 0. A division by 0
\* gives NaN for t = 0 and Infinity otherwise; a negative divisor gives the
\* floor of a quotient that is not positive.
TimeKey(ts, windowMinutes) ==
  LET t == DateGetTime(ts).num
      d == windowMinutes * 60 * 1000
  IN IF DateGetTime(ts).nan THEN NaN
     ELSE IF d > 0 THEN Num(t \div d)
     ELSE IF d = 0 THEN (IF t = 0 THEN NaN ELSE Infinity)
     ELSE Num(0 - ((t + (0 - d) - 1) \div (0 - d)))

\* `${logEntry.sourceIP}_${timeKey}`
WindowKey(logEntry, windowMinutes) ==
  logEntry.sourceIP \o <<"_">>
    \o NumberToString(TimeKey(logEntry.timestamp, windowMinutes))

isKnownDDoSAttack(label) ==
  /\ label # <<>>
  /\ \E i \in 1..Len(KNOWN_DDOS_LABELS) :
       toLowerCase(label) = toLowerCase(KNOWN_DDOS_LABELS[i])

NewGroup(logEntry, windowMinutes) ==
  [ sourceIP           |-> logEntry.sourceIP,
    timeWindow         |-> TimeKey(logEntry.timestamp, windowMinutes),
    entries            |-> <<>>,
    totalRequests      |-> 0,
    uniquePaths        |-> <<>>,
    uniqueUserAgents   |-> <<>>,
    responseCodes      |-> <<>>,
    methods            |-> <<>>,
    labels             |-> <<>>,
    hasKnownDDoSAttack |-> FALSE ]

\* (obj[k] || 0) + n
Tally(obj, k, n) ==
  ObjSet(obj, k, (IF ObjHas(obj, k) THEN ObjGet(obj, k) ELSE 0) + n)

\* A faulty aggregate update whose known-attack flag follows the label of the
\* record added last instead of staying set.
AddEntryLastLabel(g, logEntry) ==
  [ g EXCEPT
      !.entries = Append(@, logEntry),
      !.totalRequests = @ + logEntry.requestCount,
      !.uniquePaths = SetAdd(@, logEntry.path),
      !.uniqueUserAgents = SetAdd(@, logEntry.userAgent),
      !.labels = IF logEntry.label # <<>> /\ logEntry.label # NA
                   THEN SetAdd(@, logEntry.label) ELSE @,
      !.hasKnownDDoSAttack =
          IF logEntry.label # <<>> /\ logEntry.label # NA
            THEN isKnownDDoSAttack(logEntry.label) ELSE @,
      !.responseCodes =
          IF logEntry.responseCode # <<>> /\ logEntry.responseCode # NA
            THEN Tally(@, logEntry.responseCode, logEntry.requestCount) ELSE @,
      !.methods =
          IF logEntry.method # <<>> /\ logEntry.method # NA
            THEN Tally(@, logEntry.method, logEntry.requestCount) ELSE @ ]

\* The statements of the forEach body that update the window's aggregate.
AddEntry(g, logEntry) ==
  [ g EXCEPT
      !.entries = Append(@, logEntry),
      !.totalRequests = @ + logEntry.requestCount,
      !.uniquePaths = SetAdd(@, logEntry.path),
      !.uniqueUserAgents = SetAdd(@, logEntry.userAgent),
      !.labels = IF logEntry.label # <<>> /\ logEntry.label # NA
                   THEN SetAdd(@, logEntry.label) ELSE @,
      !.hasKnownDDoSAttack =
          IF logEntry.label # <<>> /\ logEntry.label # NA
               /\ isKnownDDoSAttack(logEntry.label)
            THEN TRUE ELSE @,
      !.responseCodes =
          IF logEntry.responseCode # <<>> /\ logEntry.responseCode # NA
            THEN Tally(@, logEntry.responseCode, logEntry.requestCount) ELSE @,
      !.methods =
          IF logEntry.method # <<>> /\ logEntry.method # NA
            THEN Tally(@, logEntry.method, logEntry.requestCount) ELSE @ ]

\* A faulty grouper that forgets the test `if (!ipTimeWindowGroups[key])` and
\* starts a fresh aggregate for every record.
GroupInsertFresh(groupsObj, logEntry, windowMinutes) ==
  ObjSet(groupsObj, WindowKey(logEntry, windowMinutes),
         AddEntry(NewGroup(logEntry, windowMinutes), logEntry))

\* One iteration of parsedLogEntries.forEach in groupByIPAndTime.
GroupInsert(groupsObj, logEntry, windowMinutes) ==
  LET key == WindowKey(logEntry, windowMinutes)
      g   == IF ObjHas(groupsObj, key)
               THEN ObjGet(groupsObj, key)
               ELSE NewGroup(logEntry, windowMinutes)
  IN ObjSet(groupsObj, key, AddEntry(g, logEntry))

RECURSIVE GroupFrom(_, _, _)
GroupFrom(groupsObj, entries, windowMinutes) ==
  IF entries = <<>> THEN groupsObj
  ELSE GroupFrom(GroupInsert(groupsObj, Head(entries), windowMinutes),
                 Tail(entries), windowMinutes)

\* groupByIPAndTime(parsedLogEntries, windowMinutes): every call starts from
\* its own empty object.
groupByIPAndTime(parsedLogEntries, windowMinutes) ==
  GroupFrom(<<>>, parsedLogEntries, windowMinutes)

\* --------------------------------------------------------------- rule engine

isSuspiciousUserAgent(userAgent) ==
  /\ userAgent # <<>>
  /\ \E i \in 1..Len(SUSPICIOUS_USER_AGENTS) :
       includes(toLowerCase(userAgent), toLowerCase(SUSPICIOUS_USER_AGENTS[i]))

isSuspiciousIP(ip) == ip # <<>> /\ SUSPICIOUS_IP_PATTERNS(ip)

\* totalRequests / windowMinutes, kept as the exact quotient.
calculateRequestFrequency(totalRequests, windowMinutes) ==
  [num |-> totalRequests, den |-> windowMinutes]

\* A faulty comparison: the threshold itself does not count.
FreqAbove(f, threshold) == f.num > threshold * f.den

\* frequency >= threshold and frequency < threshold, for a positive divisor
FreqGE(f, threshold) == f.num >= threshold * f.den
FreqLT(f, threshold) == f.num < threshold * f.den

TwoDigits(n) == <<DigitChars[(n \div 10) + 1], DigitChars[(n % 10) + 1]>>

\* Number.prototype.toFixed(2): the magnitude rounded to hundredths, halves up.
toFixed2(f) ==
  LET mag == IF f.num < 0 THEN -f.num ELSE f.num
      h   == (200 * mag + f.den) \div (2 * f.den)
  IN (IF f.num < 0 THEN <<"-">> ELSE <<>>)
       \o NatToString(h \div 100) \o <<".">> \o TwoDigits(h % 100)

IntToString(n) == NumberToString(Num(n))

RECURSIVE Join(_, _)
Join(parts, sep) ==
  IF parts = <<>> THEN <<>>
  ELSE IF Len(parts) = 1 THEN parts[1]
  ELSE parts[1] \o sep \o Join(Tail(parts), sep)

CommaSpace == <<",", " ">>

\* Object.entries(obj).filter(([k]) => list.includes(k))
SuspiciousEntries(obj, list) ==
  SelectSeq(obj, LAMBDA e : e.k \in Range(list))

\* entries.map(([k, count]) => `${k}(${count})`).join(', ')
FormatTally(entries) ==
  Join([i \in 1..Len(entries) |->
          entries[i].k \o <<"(">> \o IntToString(entries[i].v) \o <<")">>],
       CommaSpace)

MSG_HIGH == <<"H","i","g","h"," ","r","e","q","u","e","s","t"," ","f","r","e","q","u","e","n","c","y",":"," ">>
MSG_MEDIUM == <<"M","e","d","i","u","m"," ","r","e","q","u","e","s","t"," ","f","r","e","q","u","e","n","c","y",":"," ">>
MSG_REQ_MIN == <<" ","r","e","q","/","m","i","n">>
MSG_UA == <<"S","u","s","p","i","c","i","o","u","s"," ","u","s","e","r"," ","a","g","e","n","t","s",":"," ">>
MSG_IP == <<"S","u","s","p","i","c","i","o","u","s"," ","I","P"," ","p","a","t","t","e","r","n",":"," ">>
MSG_CODES == <<"S","u","s","p","i","c","i","o","u","s"," ","r","e","s","p","o","n","s","e"," ","c","o","d","e","s",":"," ">>
MSG_PATHS == <<"H","i","g","h"," ","p","a","t","h"," ","d","i","v","e","r","s","i","t","y",":"," ">>
MSG_UNIQUE_PATHS == <<" ","u","n","i","q","u","e"," ","p","a","t","h","s">>
MSG_METHODS == <<"S","u","s","p","i","c","i","o","u","s"," ","m","e","t","h","o","d","s",":"," ">>
MSG_DRDOS_DNS == <<"D","r","D","o","S","_","D","N","S"," ","a","t","t","a","c","k"," ","d","e","t","e","c","t","e","d"," ","(","+","5"," ","r","i","s","k",")">>
DRDOS_DNS == <<"D","r","D","o","S","_","D","N","S">>
BENIGN == <<"B","E","N","I","G","N">>

\* indicatorRules: the registry, in its order.
\*   1 high frequency   2 medium frequency   3 suspicious user agents
\*   4 suspicious IP    5 suspicious response codes
\*   6 path diversity   7 suspicious methods
NumRules == 7
PATH_DIVERSITY_LIMIT == 50
Rules == 1..NumRules

\* rule.check(group, requestFrequency)
RuleCheck(i, group, f) ==
  CASE i = 1 -> FreqGE(f, HIGH_FREQUENCY_THRESHOLD)
    [] i = 2 -> FreqGE(f, MEDIUM_FREQUENCY_THRESHOLD)
                  /\ FreqLT(f, HIGH_FREQUENCY_THRESHOLD)
    [] i = 3 -> Len(SelectSeq(group.uniqueUserAgents, isSuspiciousUserAgent)) > 0
    [] i = 4 -> isSuspiciousIP(group.sourceIP)
    [] i = 5 -> Len(SuspiciousEntries(group.responseCodes,
                                      SUSPICIOUS_RESPONSE_CODES)) > 0
    [] i = 6 -> Len(group.uniquePaths) > PATH_DIVERSITY_LIMIT
    [] i = 7 -> Len(SuspiciousEntries(group.methods, SUSPICIOUS_METHODS)) > 0

\* rule.message(group, requestFrequency)
RuleMessage(i, group, f) ==
  CASE i = 1 -> MSG_HIGH \o toFixed2(f) \o MSG_REQ_MIN
    [] i = 2 -> MSG_MEDIUM \o toFixed2(f) \o MSG_REQ_MIN
    [] i = 3 -> MSG_UA \o Join(SelectSeq(group.uniqueUserAgents,
                                         isSuspiciousUserAgent), CommaSpace)
    [] i = 4 -> MSG_IP \o group.sourceIP
    [] i = 5 -> MSG_CODES \o FormatTally(SuspiciousEntries(group.responseCodes,
                                           SUSPICIOUS_RESPONSE_CODES))
    [] i = 6 -> MSG_PATHS \o IntToString(Len(group.uniquePaths))
                  \o MSG_UNIQUE_PATHS
    [] i = 7 -> MSG_METHODS \o FormatTally(SuspiciousEntries(group.methods,
                                             SUSPICIOUS_METHODS))

\* rule.risk
RuleRisk(i) ==
  CASE i = 1 -> 3
    [] i = 2 -> 2
    [] i = 3 -> 2
    [] i = 4 -> 1
    [] i = 5 -> 1
    [] i = 6 -> 1
    [] i = 7 -> 1

\* A faulty registry in which two rules name each other's counter.
RuleStatKeySwapped(i) ==
  CASE i = 1 -> "highFrequencyIPs"
    [] i = 3 -> "suspiciousIPs"
    [] i = 4 -> "suspiciousUserAgents"
    [] OTHER -> ""

\* rule.statKey, "" for a rule that names none.
RuleStatKey(i) ==
  CASE i = 1 -> "highFrequencyIPs"
    [] i = 3 -> "suspiciousUserAgents"
    [] i = 4 -> "suspiciousIPs"
    [] OTHER -> ""

\* if (rule.statKey) analysisStats[rule.statKey]++
BumpStat(stats, statKey) ==
  IF statKey = "" THEN stats ELSE [stats EXCEPT ![statKey] = @ + 1]

\* The locals of one pass of the scoring loop, before any rule is applied.
\* fired records the rules whose check held.
NewScore(stats) ==
  [ suspiciousIndicators |-> <<>>,
    riskScore            |-> 0,
    groupHasDrDoSDNS     |-> FALSE,
    groupHasLabeledAttack |-> FALSE,
    fired                |-> {},
    stats                |-> stats ]

\* The body of `for (const rule of indicatorRules)` for one rule.
ApplyRule(i, group, f, acc) ==
  IF RuleCheck(i, group, f)
    THEN [ acc EXCEPT
             !.suspiciousIndicators = Append(@, RuleMessage(i, group, f)),
             !.riskScore = @ + RuleRisk(i),
             !.stats = BumpStat(@, RuleStatKey(i)),
             !.fired = @ \cup {i} ]
    ELSE acc

\* A faulty rule loop that leaves at the first rule that fires.
RECURSIVE ApplyRulesFirstMatch(_, _, _, _)
ApplyRulesFirstMatch(i, group, f, acc) ==
  IF i > NumRules THEN acc
  ELSE IF RuleCheck(i, group, f) THEN ApplyRule(i, group, f, acc)
  ELSE ApplyRulesFirstMatch(i + 1, group, f, acc)

\* for (const rule of indicatorRules) { ... } from rule i on.
RECURSIVE ApplyRules(_, _, _, _)
ApplyRules(i, group, f, acc) ==
  IF i > NumRules THEN acc
  ELSE ApplyRules(i + 1, group, f, ApplyRule(i, group, f, acc))

\* A faulty supervised pass that weighs every configured known-attack label.
LabelRiskOfKnown(label) == IF isKnownDDoSAttack(label) THEN 5 ELSE 0

\* The risk a label adds in the supervised pass.
LabelRisk(label) == IF includes(label, DRDOS_DNS) THEN 5 ELSE 0

\* The body of ipTimeWindowGroup.labels.forEach for one label.
ApplyLabel(label, acc) ==
  LET a == IF LabelRisk(label) > 0
             THEN [ acc EXCEPT
                      !.riskScore = @ + LabelRisk(label),
                      !.suspiciousIndicators = Append(@, MSG_DRDOS_DNS),
                      !.stats = [@ EXCEPT !.knownDDoSAttacks = @ + 1],
                      !.groupHasDrDoSDNS = TRUE ]
             ELSE acc
  IN IF toUpperCase(trim(label)) # BENIGN
       THEN [ a EXCEPT
                !.stats = [@ EXCEPT !.labeledAttacks = @ + 1],
                !.groupHasLabeledAttack = TRUE ]
       ELSE a

RECURSIVE ApplyLabels(_, _)
ApplyLabels(labels, acc) ==
  IF labels = <<>> THEN acc
  ELSE ApplyLabels(Tail(labels), ApplyLabel(Head(labels), acc))

\* A faulty threshold: a single weak indicator is enough.
ShouldFlagAtOne(riskScore) == riskScore >= 1

\* if (riskScore >= 2)
ShouldFlag(riskScore) == riskScore >= 2

\* entries.slice(0, 5)
SAMPLE_SIZE == 5
Slice(s, n) == SubSeq(s, 1, IF Len(s) < n THEN Len(s) ELSE n)

\* The flagged entry of a window. Its timestamp field is the wall clock at
\* the time of the call and is left out.
FlaggedEntry(group, f, score) ==
  [ sourceIP             |-> group.sourceIP,
    requestCount         |-> group.totalRequests,
    requestFrequency     |-> f,
    riskScore            |-> score.riskScore,
    suspiciousIndicators |-> score.suspiciousIndicators,
    uniquePaths          |-> Len(group.uniquePaths),
    uniqueUserAgents     |-> Len(group.uniqueUserAgents),
    responseCodes        |-> group.responseCodes,
    methods              |-> group.methods,
    labels               |-> group.labels,
    hasKnownDDoSAttack   |-> group.hasKnownDDoSAttack \/ score.groupHasDrDoSDNS,
    entries              |-> Slice(group.entries, SAMPLE_SIZE) ]

\* The locals of the scoring loop's pass over one window, at its end. The
\* risk after the rule loop is kept beside the final one.
ScoreGroup(group, stats) ==
  LET f     == calculateRequestFrequency(group.totalRequests, ANALYSIS_WINDOW)
      rules == ApplyRules(1, group, f, NewScore(stats))
      final == ApplyLabels(group.labels, rules)
  IN [ requestFrequency |-> f,
       ruleRisk         |-> rules.riskScore,
       ruleIndicators   |-> rules.suspiciousIndicators,
       score            |-> final ]

\* A faulty sort that is not stable: an entry goes in front of its equals.
SortPlaceBeforeEquals(sorted, e) ==
  Cardinality({i \in 1..Len(sorted) : sorted[i].riskScore > e.riskScore})

\* flaggedEntries.sort((a, b) => b.riskScore - a.riskScore): the sort is
\* stable, so an entry goes behind every entry whose risk is not lower.
SortPlace(sorted, e) ==
  Cardinality({i \in 1..Len(sorted) : sorted[i].riskScore >= e.riskScore})

RECURSIVE SortFrom(_, _)
SortFrom(sorted, rest) ==
  IF rest = <<>> THEN sorted
  ELSE SortFrom(SubSeq(sorted, 1, SortPlace(sorted, Head(rest)))
                  \o <<Head(rest)>>
                  \o SubSeq(sorted, SortPlace(sorted, Head(rest)) + 1, Len(sorted)),
                Tail(rest))

SortByRiskDescending(entries) == SortFrom(<<>>, entries)

\* The analysisStats object literal.
NewStats(parsedLogEntries) ==
  [ totalEntries         |-> Len(parsedLogEntries),
    uniqueIPs            |-> Cardinality({parsedLogEntries[i].sourceIP :
                                            i \in 1..Len(parsedLogEntries)}),
    suspiciousIPs        |-> 0,
    highFrequencyIPs     |-> 0,
    suspiciousUserAgents |-> 0,
    knownDDoSAttacks     |-> 0,
    labeledAttacks       |-> 0 ]

\* Object.values(ipTimeWindowGroups).forEach(...) as a whole.
RECURSIVE ScoreFrom(_, _, _)
ScoreFrom(groups, stats, flagged) ==
  IF groups = <<>> THEN [flaggedEntries |-> flagged, analysisStats |-> stats]
  ELSE LET r == ScoreGroup(Head(groups), stats)
       IN ScoreFrom(Tail(groups), r.score.stats,
                    IF ShouldFlag(r.score.riskScore)
                      THEN Append(flagged,
                                  FlaggedEntry(Head(groups), r.requestFrequency,
                                               r.score))
                      ELSE flagged)

\* analyzeLogsForDDoS(parsedLogEntries): the value one call returns.
analyzeLogsForDDoS(entries) ==
  LET out == ScoreFrom(ObjectValues(groupByIPAndTime(entries, ANALYSIS_WINDOW)),
                       NewStats(entries), <<>>)
  IN [ flaggedEntries |-> SortByRiskDescending(out.flaggedEntries),
       analysisStats  |-> out.analysisStats ]

\* -------------------------------------------------------------------- inputs

IP_PUBLIC == <<"2","0","3",".","0",".","1","1","3",".","5">>
IP_PRIVATE == <<"1","9","2",".","1","6","8",".","1",".","1","0","0">>
IP_DEST == <<"1","0",".","0",".","0",".","1">>
UA_CURL == <<"c","u","r","l","/","7",".","6","8">>
UA_MOZILLA == <<"M","o","z","i","l","l","a","/","5",".","0">>
L_DrDoS_DNS_2 == <<"D","r","D","o","S","_","D","N","S","_","2">>
L_drdos_dns == <<"d","r","d","o","s","_","d","n","s">>
L_Syn == <<"S","y","n">>
RC_429 == <<"4","2","9">>
RC_200 == <<"2","0","0">>
M_HEAD == <<"H","E","A","D">>
M_GET == <<"G","E","T">>
P_A == <<"/","a">>
NOT_A_DATE == <<"n","o","t","-","a","-","d","a","t","e">>

LogEntry(ts, ip, count, label, ua, code, method, path) ==
  [ timestamp     |-> ts,
    sourceIP      |-> ip,
    destinationIP |-> IP_DEST,
    requestCount  |-> count,
    duration      |-> Num(0),
    bytes         |-> Num(0),
    label         |-> label,
    userAgent     |-> ua,
    responseCode  |-> code,
    method        |-> method,
    path          |-> path ]

\* A flow record without application-layer fields, as the normalizers build it.
Flow(ts, ip, count, label) == LogEntry(ts, ip, count, label, NA, NA, NA, NA)

\* The records analyzeLogsForDDoS is called with: two source addresses (one
\* public, one private), two five-minute windows and an unparsable timestamp,
\* request counts around the two frequency thresholds (250 and 500 requests
\* in a window), the label families, and application-layer fields.
RecordDomain ==
  { Flow(TS_A, IP_PUBLIC, 1, NA),
    Flow(TS_B, IP_PUBLIC, 249, BENIGN),
    Flow(TS_A, IP_PUBLIC, 250, NA),
    Flow(TS_C, IP_PUBLIC, 600, NA),
    Flow(TS_A, IP_PRIVATE, 1, NA),
    Flow(TS_A, IP_PUBLIC, 1, L_Syn),
    Flow(TS_A, IP_PUBLIC, 1, DRDOS_DNS),
    Flow(TS_B, IP_PUBLIC, 1, L_drdos_dns),
    Flow(TS_A, IP_PUBLIC, 1, L_DrDoS_DNS_2),
    Flow(NOT_A_DATE, IP_PUBLIC, 600, NA),
    LogEntry(TS_C, IP_PRIVATE, 250, NA, UA_CURL, RC_429, M_HEAD, P_A),
    LogEntry(TS_A, IP_PUBLIC, 1, NA, UA_MOZILLA, RC_200, M_GET, P_A),
    LogEntry(TS_A, IP_PUBLIC, 1, NA, UA_CURL, NA, NA, NA),
    LogEntry(TS_C, IP_PUBLIC, 1, NA, NA, RC_429, NA, NA) }

T_250 == <<"2","5","0">>
T_600 == <<"6","0","0">>
T_5 == <<"5">>
T_0 == <<"0">>
T_NEG_10 == <<"-","1","0">>
T_0_150 == <<"0",".","1","5","0">>
T_NEG_1_5 == <<"-","1",".","5">>
T_1024 == <<"1","0","2","4">>
T_NEG_1024 == <<"-","1","0","2","4">>
T_NOTANUMBER == <<"n","o","t","a","n","u","m","b","e","r">>
BLANK == <<" "," ">>

\* A cell with white space around its text.
Padded(s) == <<" ">> \o s \o <<" ", "\t">>

\* One row as csv-parser hands it to the 'data' handler: an object with a
\* property for each column of CONFIG.CSV_COLUMNS the file has.
Row(ts, src, dst, pkts, dur, len, label) ==
  [ TIMESTAMP     |-> ts,
    SOURCE_IP     |-> src,
    DEST_IP       |-> dst,
    FWD_PACKETS   |-> pkts,
    FLOW_DURATION |-> dur,
    TOTAL_LENGTH  |-> len,
    LABEL         |-> label ]

\* A row of texts, every column being in the file.
TextRow(ts, src, dst, pkts, dur, len, label) ==
  Row(Cell(ts), Cell(src), Cell(dst), Cell(pkts), Cell(dur), Cell(len),
      Cell(label))

\* The rows of the input file: a well-formed row, the same with white space
\* around every cell, the edge rows generateSampleData appends (an empty
\* timestamp, source or destination; -10 and 0 packets; notanumber as the
\* byte count and as the duration), rows that spell a sentinel (N/A,
\* UNKNOWN) out, a row of a file without the source column, blank cells, and
\* negative decimals.
RowDomain ==
  { TextRow(TS_A, IP_PUBLIC, IP_DEST, T_250, T_0_150, T_1024, BENIGN),
    TextRow(Padded(TS_A), Padded(IP_PUBLIC), Padded(IP_DEST), Padded(T_5),
            Padded(T_0_150), Padded(T_1024), Padded(DRDOS_DNS)),
    TextRow(<<>>, IP_PUBLIC, IP_DEST, T_5, T_0_150, T_1024, BENIGN),
    TextRow(TS_A, <<>>, IP_DEST, T_5, T_0_150, T_1024, BENIGN),
    TextRow(TS_A, IP_PRIVATE, <<>>, T_5, T_0_150, T_1024, BENIGN),
    TextRow(TS_A, IP_PRIVATE, IP_DEST, T_NEG_10, T_0_150, T_1024, BENIGN),
    TextRow(TS_A, IP_PRIVATE, IP_DEST, T_0, T_0_150, T_1024, BENIGN),
    TextRow(TS_A, IP_PRIVATE, IP_DEST, T_5, T_0_150, T_NOTANUMBER, BENIGN),
    TextRow(TS_A, IP_PRIVATE, IP_DEST, T_5, T_NOTANUMBER, T_1024, BENIGN),
    TextRow(NA, IP_PUBLIC, IP_DEST, T_5, T_0_150, T_1024, BENIGN),
    TextRow(TS_A, UNKNOWN, IP_DEST, T_5, T_0_150, T_1024, BENIGN),
    TextRow(TS_A, IP_PUBLIC, Padded(UNKNOWN), T_5, T_0_150, T_1024, BENIGN),
    Row(Cell(TS_A), Absent, Cell(IP_DEST), Cell(T_5), Cell(T_0_150),
        Cell(T_1024), Cell(BENIGN)),
    TextRow(TS_A, BLANK, IP_DEST, T_5, T_0_150, T_1024, BENIGN),
    TextRow(TS_B, IP_PUBLIC, IP_DEST, T_5, T_0_150, T_1024, BLANK),
    Row(Cell(TS_C), Cell(IP_PUBLIC), Cell(IP_DEST), Absent, Cell(T_NEG_1_5),
        Cell(T_NEG_1024), Absent) }

\* The rows of the files the streaming adapter reads: three flows of one
\* source, two of them in one window and 250 requests each, a row without a
\* source address, and a flow with a label of the DrDoS_DNS family.
StreamRowDomain ==
  { TextRow(TS_A, IP_PUBLIC, IP_DEST, T_250, T_0_150, T_1024, BENIGN),
    TextRow(TS_B, IP_PUBLIC, IP_DEST, T_250, T_0_150, T_1024, BENIGN),
    TextRow(TS_C, IP_PUBLIC, IP_DEST, T_600, T_0_150, T_1024, BENIGN),
    TextRow(TS_A, <<>>, IP_DEST, T_5, T_0_150, T_1024, BENIGN),
    TextRow(TS_C, IP_PRIVATE, IP_DEST, T_5, T_0_150, T_1024, DRDOS_DNS) }

\* The rows of the files a processor reads while process() is called again,
\* stop() is called, the stream fails or the listener throws: two flows and
\* a row without a source address.
ProcessorRowDomain ==
  { TextRow(TS_A, IP_PUBLIC, IP_DEST, T_250, T_0_150, T_1024, BENIGN),
    TextRow(TS_B, IP_PUBLIC, IP_DEST, T_250, T_0_150, T_1024, BENIGN),
    TextRow(TS_A, <<>>, IP_DEST, T_5, T_0_150, T_1024, BENIGN) }

T_1 == <<"1">>

\* A row of a file that has a user-agent column besides those of
\* CONFIG.CSV_COLUMNS; the cell is absent in a row that is cut short.
AgentRow(ts, src, dst, pkts, label, ua) ==
  [ TIMESTAMP     |-> Cell(ts),
    SOURCE_IP     |-> Cell(src),
    DEST_IP       |-> Cell(dst),
    FWD_PACKETS   |-> Cell(pkts),
    FLOW_DURATION |-> Cell(T_0_150),
    TOTAL_LENGTH  |-> Cell(T_1024),
    LABEL         |-> Cell(label),
    USER_AGENT    |-> ua ]

\* The rows of the files runAnalysis is called on: two flows of one packet
\* from a public source in one window, sent with curl; a benign flow of low
\* frequency; a flow of 250 packets; a labelled flood from a private source;
\* and two rows that fail the validity check, one of them the flood without
\* its timestamp.
RunRowDomain ==
  { AgentRow(TS_A, IP_PUBLIC, IP_DEST, T_1, BENIGN, Cell(UA_CURL)),
    AgentRow(TS_B, IP_PUBLIC, IP_DEST, T_1, BENIGN, Cell(UA_CURL)),
    AgentRow(TS_C, IP_PUBLIC, IP_DEST, T_5, BENIGN, Cell(UA_MOZILLA)),
    AgentRow(TS_A, IP_PUBLIC, IP_DEST, T_250, BENIGN, Absent),
    AgentRow(TS_C, IP_PRIVATE, IP_DEST, T_600, DRDOS_DNS, Cell(UA_MOZILLA)),
    AgentRow(TS_A, <<>>, IP_DEST, T_5, BENIGN, Cell(UA_CURL)),
    AgentRow(<<>>, IP_PRIVATE, IP_DEST, T_600, DRDOS_DNS, Cell(UA_CURL)) }

SeqsUpTo(S, n) == UNION {[1..k -> S] : k \in 0..n}

\* --------------------------------------------------------------------- state

VARIABLES
  pc,                 \* where the run is
  parsedLogEntries,   \* the argument of analyzeLogsForDDoS
  pos,                \* groupByIPAndTime: the next record of the forEach
  ipTimeWindowGroups, \* groupByIPAndTime: the object being built
  analysisStats,      \* analyzeLogsForDDoS: the statistics
  widx,               \* the scoring loop: the next window of Object.values
  scored,             \* the scoring loop: the locals of each finished pass
  flaggedEntries,     \* analyzeLogsForDDoS: the flagged list
  rows,               \* the rows of the input file
  rowNumber,          \* the 'data' handlers: the number of the next row
  parsedResults,      \* parseCSVLogs: the records accepted so far
  warnings,           \* logger.warn: the row numbers of the skipped rows
  batchSize,          \* StreamingCSVProcessor: this.batchSize
  currentBatch,       \* StreamingCSVProcessor: this.currentBatch
  totalProcessed,     \* StreamingCSVProcessor: this.totalProcessed
  isProcessing,       \* StreamingCSVProcessor: this.isProcessing
  emitted,            \* the events emitted, in order
  analyses,           \* what analyzeLogsForDDoS returned for each batch
  streams,            \* process(): the read streams created, each with its rowNumber
  listening,          \* the listeners on the processor are attached
  calls,              \* the calls of process() so far and how each was answered
  analysisOutput,     \* DDoSDetectionSystem: this.analysisOutput
  windowMinutes,      \* groupByIPAndTime: the window size it is called with
  maxRetries,         \* queryLLM: maxRetries
  attempt,            \* queryLLM: attempt
  agents,             \* the length of CONFIG.LLM_AGENTS, 0 when there is none
  currentAgentIndex,  \* llmAssist.js: currentAgentIndex
  endpoint,           \* what the endpoint answers to the successive requests
  requests,           \* queryLLM: the requests sent so far
  delays,             \* queryLLM: the back-off delays waited, in milliseconds
  llmOutcome          \* queryLLM: pending, or what it returned or threw

analysisVars ==
  << pc, parsedLogEntries, pos, ipTimeWindowGroups, analysisStats, widx,
     scored, flaggedEntries >>

parseVars == << rows, rowNumber, parsedResults, warnings >>

streamVars ==
  << batchSize, currentBatch, totalProcessed, isProcessing, emitted, analyses >>

processorVars == << streams, listening, calls >>

llmVars ==
  << maxRetries, attempt, agents, currentAgentIndex, endpoint, requests,
     delays, llmOutcome >>

\* What the analysis, the parser and a single streaming run leave alone.
laterVars == << processorVars, analysisOutput, windowMinutes, llmVars >>

vars == << analysisVars, parseVars, streamVars, laterVars >>

NoStats == NewStats(<<>>)

\* No file is being read.
NoInput ==
  /\ rows = <<>>
  /\ rowNumber = 1
  /\ parsedResults = <<>>
  /\ warnings = <<>>

\* No analysis is under way.
NoAnalysis ==
  /\ parsedLogEntries = <<>>
  /\ pos = 1
  /\ ipTimeWindowGroups = <<>>
  /\ analysisStats = NoStats
  /\ widx = 1
  /\ scored = <<>>
  /\ flaggedEntries = <<>>

\* this.analysisOutput = null
NoOutput == [present |-> FALSE, flaggedEntries |-> <<>>, analysisStats |-> NoStats]

\* queryLLM has not been called.
NoQuery ==
  /\ maxRetries = 0
  /\ attempt = 0
  /\ agents = 0
  /\ currentAgentIndex = 0
  /\ endpoint = <<>>
  /\ requests = 0
  /\ delays = <<>>
  /\ llmOutcome = [state |-> "idle"]

\* Nothing beyond the analysis, the parser and one streaming run is in play.
NoLater ==
  /\ streams = <<>>
  /\ listening = TRUE
  /\ calls = <<>>
  /\ analysisOutput = NoOutput
  /\ windowMinutes = ANALYSIS_WINDOW
  /\ NoQuery

\* The fields of a StreamingCSVProcessor that has not been constructed.
NoProcessor ==
  /\ batchSize = DEFAULT_BATCH_SIZE
  /\ currentBatch = <<>>
  /\ totalProcessed = 0
  /\ isProcessing = FALSE
  /\ emitted = <<>>
  /\ analyses = <<>>

\* ------------------------------------------------------- analyzeLogsForDDoS

\* analyzeLogsForDDoS is entered with a list of records.
EnterAnalysis(entries) ==
  /\ parsedLogEntries = entries
  /\ pc = "group"
  /\ pos = 1
  /\ ipTimeWindowGroups = <<>>
  /\ analysisStats = NoStats
  /\ widx = 1
  /\ scored = <<>>
  /\ flaggedEntries = <<>>
  /\ NoInput
  /\ NoProcessor
  /\ NoLater

Init == \E entries \in SeqsUpTo(RecordDomain, MaxRecords) : EnterAnalysis(entries)

\* groupByIPAndTime: one iteration of the forEach.
GroupStep ==
  /\ pc = "group"
  /\ UNCHANGED laterVars
  /\ pos <= Len(parsedLogEntries)
  /\ ipTimeWindowGroups' =
       GroupInsert(ipTimeWindowGroups, parsedLogEntries[pos], ANALYSIS_WINDOW)
  /\ pos' = pos + 1
  /\ UNCHANGED << pc, parsedLogEntries, analysisStats, widx, scored, flaggedEntries >>
  /\ UNCHANGED << parseVars, streamVars >>

\* groupByIPAndTime returns; flaggedEntries and analysisStats are initialised.
StartScoring ==
  /\ pc = "group"
  /\ UNCHANGED laterVars
  /\ pos > Len(parsedLogEntries)
  /\ pc' = "score"
  /\ flaggedEntries' = <<>>
  /\ analysisStats' = NewStats(parsedLogEntries)
  /\ widx' = 1
  /\ UNCHANGED << parsedLogEntries, pos, ipTimeWindowGroups, scored >>
  /\ UNCHANGED << parseVars, streamVars >>

\* One pass of Object.values(ipTimeWindowGroups).forEach.
ScoreWindow ==
  /\ pc = "score"
  /\ UNCHANGED laterVars
  /\ widx <= Len(ipTimeWindowGroups)
  /\ LET group == ObjectValues(ipTimeWindowGroups)[widx]
         r     == ScoreGroup(group, analysisStats)
     IN /\ analysisStats' = r.score.stats
        /\ scored' = Append(scored,
             [ requestFrequency     |-> r.requestFrequency,
               ruleRisk             |-> r.ruleRisk,
               ruleIndicators       |-> r.ruleIndicators,
               riskScore            |-> r.score.riskScore,
               suspiciousIndicators |-> r.score.suspiciousIndicators,
               fired                |-> r.score.fired ])
        /\ flaggedEntries' =
             IF ShouldFlag(r.score.riskScore)
               THEN Append(flaggedEntries,
                           FlaggedEntry(group, r.requestFrequency, r.score))
               ELSE flaggedEntries
  /\ widx' = widx + 1
  /\ UNCHANGED << pc, parsedLogEntries, pos, ipTimeWindowGroups >>
  /\ UNCHANGED << parseVars, streamVars >>

\* The flagged list is sorted and the result returned.
SortAndReturn ==
  /\ pc = "score"
  /\ UNCHANGED laterVars
  /\ widx > Len(ipTimeWindowGroups)
  /\ flaggedEntries' = SortByRiskDescending(flaggedEntries)
  /\ pc' = "done"
  /\ UNCHANGED << parsedLogEntries, pos, ipTimeWindowGroups, analysisStats,
                  widx, scored >>
  /\ UNCHANGED << parseVars, streamVars >>

Next == GroupStep \/ StartScoring \/ ScoreWindow \/ SortAndReturn

Spec == Init /\ [][Next]_vars

\* -------------------------------------------------------------- parseCSVLogs

\* parseCSVLogs(filePath) is called on a file.
ParseInit ==
  /\ rows \in SeqsUpTo(RowDomain, MaxRows)
  /\ pc = "parse"
  /\ rowNumber = 1
  /\ parsedResults = <<>>
  /\ warnings = <<>>
  /\ NoAnalysis
  /\ NoProcessor
  /\ NoLater

\* The 'data' handler of parseCSVLogs, for the next row of the file.
ParseData ==
  /\ pc = "parse"
  /\ UNCHANGED laterVars
  /\ rowNumber <= Len(rows)
  /\ LET normalizedLogEntry == NormalizedFields(rows[rowNumber])
     IN IF MissingRequiredFields(normalizedLogEntry)
          THEN /\ warnings' = Append(warnings, rowNumber)
               /\ UNCHANGED parsedResults
          ELSE /\ parsedResults' = Append(parsedResults, normalizedLogEntry)
               /\ UNCHANGED warnings
  /\ rowNumber' = rowNumber + 1
  /\ UNCHANGED << pc, rows, parsedLogEntries, pos, ipTimeWindowGroups,
                  analysisStats, widx, scored, flaggedEntries, streamVars >>

\* The 'end' handler of parseCSVLogs: the promise resolves with parsedResults.
ParseEnd ==
  /\ pc = "parse"
  /\ UNCHANGED laterVars
  /\ rowNumber > Len(rows)
  /\ pc' = "parsed"
  /\ UNCHANGED << parsedLogEntries, pos, ipTimeWindowGroups, analysisStats,
                  widx, scored, flaggedEntries, parseVars, streamVars >>

NextParse == ParseData \/ ParseEnd

SpecParse == ParseInit /\ [][NextParse]_vars

\* ----------------------------------------------------- StreamingCSVProcessor

\* The batchSize options a processor is constructed with: none (0 stands for
\* an option that is absent or falsy) or a positive size.
BatchSizeOptions == 0..MaxBatchSize

\* new StreamingCSVProcessor(filePath, options), with a listener on 'batch'
\* that hands each batch to analyzeLogsForDDoS.
StreamInit ==
  /\ rows \in SeqsUpTo(StreamRowDomain, MaxRows)
  /\ \E option \in BatchSizeOptions :
       batchSize = IF option # 0 THEN option ELSE DEFAULT_BATCH_SIZE
  /\ currentBatch = <<>>
  /\ totalProcessed = 0
  /\ isProcessing = FALSE
  /\ emitted = <<>>
  /\ analyses = <<>>
  /\ pc = "constructed"
  /\ rowNumber = 1
  /\ parsedResults = <<>>
  /\ warnings = <<>>
  /\ NoAnalysis
  /\ NoLater

\* this.emit('batch', batch): the listener runs before emit returns.
EmitBatch(batch) ==
  /\ emitted' = Append(emitted, [type |-> "batch", batch |-> batch])
  /\ analyses' = Append(analyses, analyzeLogsForDDoS(batch))

\* process() is called on a processor that is not running.
Process ==
  /\ pc = "constructed"
  /\ UNCHANGED laterVars
  /\ ~isProcessing
  /\ isProcessing' = TRUE
  /\ rowNumber' = 1
  /\ pc' = "stream"
  /\ UNCHANGED << parsedLogEntries, pos, ipTimeWindowGroups, analysisStats,
                  widx, scored, flaggedEntries, rows, parsedResults, warnings,
                  batchSize, currentBatch, totalProcessed, emitted, analyses >>

\* The 'data' handler of process(), for the next row of the file.
StreamData ==
  /\ pc = "stream"
  /\ UNCHANGED laterVars
  /\ rowNumber <= Len(rows)
  /\ LET normalizedEntry == normalizeLogEntry(rows[rowNumber])
         pushed == Append(currentBatch, normalizedEntry.entry)
     IN IF ~normalizedEntry.valid
          THEN /\ warnings' = Append(warnings, rowNumber)
               /\ UNCHANGED << currentBatch, totalProcessed, emitted, analyses >>
          ELSE IF Len(pushed) >= batchSize
            THEN /\ EmitBatch(pushed)
                 /\ totalProcessed' = totalProcessed + Len(pushed)
                 /\ currentBatch' = <<>>
                 /\ UNCHANGED warnings
            ELSE /\ currentBatch' = pushed
                 /\ UNCHANGED << warnings, totalProcessed, emitted, analyses >>
  /\ rowNumber' = rowNumber + 1
  /\ UNCHANGED << pc, parsedLogEntries, pos, ipTimeWindowGroups, analysisStats,
                  widx, scored, flaggedEntries, rows, parsedResults, batchSize,
                  isProcessing >>

\* A faulty 'end' handler that forgets the records still in currentBatch.
StreamEndNoFlush ==
  /\ pc = "stream"
  /\ UNCHANGED laterVars
  /\ rowNumber > Len(rows)
  /\ emitted' = Append(emitted, [type |-> "complete",
                                  totalProcessed |-> totalProcessed])
  /\ pc' = "complete"
  /\ UNCHANGED << parsedLogEntries, pos, ipTimeWindowGroups, analysisStats,
                  widx, scored, flaggedEntries, parseVars, batchSize,
                  currentBatch, totalProcessed, isProcessing, analyses >>

\* The 'end' handler of process(): the rest is emitted, then 'complete', and
\* the promise resolves. isProcessing stays as it is.
StreamEnd ==
  /\ pc = "stream"
  /\ UNCHANGED laterVars
  /\ rowNumber > Len(rows)
  /\ LET total == totalProcessed + Len(currentBatch)
         done  == [type |-> "complete", totalProcessed |-> total]
     IN IF Len(currentBatch) > 0
          THEN /\ emitted' = Append(Append(emitted,
                                 [type |-> "batch", batch |-> currentBatch]), done)
               /\ analyses' = Append(analyses, analyzeLogsForDDoS(currentBatch))
               /\ totalProcessed' = total
          ELSE /\ emitted' = Append(emitted, done)
               /\ UNCHANGED << analyses, totalProcessed >>
  /\ pc' = "complete"
  /\ UNCHANGED << parsedLogEntries, pos, ipTimeWindowGroups, analysisStats,
                  widx, scored, flaggedEntries, parseVars, batchSize,
                  currentBatch, isProcessing >>

NextStream == Process \/ StreamData \/ StreamEnd

SpecStream == StreamInit /\ [][NextStream]_vars

\* ------------------------------------------ DDoSDetectionSystem.runAnalysis

\* runAnalysis(logFilePath) is called on a new DDoSDetectionSystem and calls
\* parseCSVLogs.
RunInit ==
  /\ rows \in SeqsUpTo(RunRowDomain, MaxRows)
  /\ pc = "parse"
  /\ rowNumber = 1
  /\ parsedResults = <<>>
  /\ warnings = <<>>
  /\ NoAnalysis
  /\ NoProcessor
  /\ NoLater

\* The 'error' handler of parseCSVLogs: the promise is rejected.
ParseError ==
  /\ pc = "parse"
  /\ pc' = "rejected"
  /\ UNCHANGED << parsedLogEntries, pos, ipTimeWindowGroups, analysisStats,
                  widx, scored, flaggedEntries, parseVars, streamVars, laterVars >>

\* The catch of runAnalysis: the error is logged and thrown again.
RunThrow ==
  /\ pc = "rejected"
  /\ pc' = "threw"
  /\ UNCHANGED << parsedLogEntries, pos, ipTimeWindowGroups, analysisStats,
                  widx, scored, flaggedEntries, parseVars, streamVars, laterVars >>

\* if (parsedLogEntries.length === 0) return
RunEmpty ==
  /\ pc = "parsed"
  /\ Len(parsedResults) = 0
  /\ pc' = "returned"
  /\ UNCHANGED << parsedLogEntries, pos, ipTimeWindowGroups, analysisStats,
                  widx, scored, flaggedEntries, parseVars, streamVars, laterVars >>

\* analyzeLogsForDDoS(parsedLogEntries) is entered with the parsed records.
RunAnalyze ==
  /\ pc = "parsed"
  /\ Len(parsedResults) # 0
  /\ parsedLogEntries' = parsedResults
  /\ pc' = "group"
  /\ pos' = 1
  /\ ipTimeWindowGroups' = <<>>
  /\ UNCHANGED << analysisStats, widx, scored, flaggedEntries, parseVars,
                  streamVars, laterVars >>

\* this.analysisOutput = the value analyzeLogsForDDoS returned. The report,
\* the LLM prompt and the saving of the results do not change it.
RunStore ==
  /\ pc = "done"
  /\ analysisOutput' = [present        |-> TRUE,
                        flaggedEntries |-> flaggedEntries,
                        analysisStats  |-> analysisStats]
  /\ pc' = "returned"
  /\ UNCHANGED << parsedLogEntries, pos, ipTimeWindowGroups, analysisStats,
                  widx, scored, flaggedEntries, parseVars, streamVars,
                  processorVars, windowMinutes, llmVars >>

NextRun ==
  \/ ParseData
  \/ ParseEnd
  \/ ParseError
  \/ RunThrow
  \/ RunEmpty
  \/ RunAnalyze
  \/ GroupStep
  \/ StartScoring
  \/ ScoreWindow
  \/ SortAndReturn
  \/ RunStore

SpecRun == RunInit /\ [][NextRun]_vars

\* ------------------------------- StreamingCSVProcessor: process() and stop()

\* A processor is constructed with a listener on 'batch' that hands each batch
\* to analyzeLogsForDDoS and may throw.
ProcessorInit ==
  /\ rows \in SeqsUpTo(ProcessorRowDomain, MaxRows)
  /\ \E option \in BatchSizeOptions :
       batchSize = IF option # 0 THEN option ELSE DEFAULT_BATCH_SIZE
  /\ currentBatch = <<>>
  /\ totalProcessed = 0
  /\ isProcessing = FALSE
  /\ emitted = <<>>
  /\ analyses = <<>>
  /\ pc = "processor"
  /\ rowNumber = 1
  /\ parsedResults = <<>>
  /\ warnings = <<>>
  /\ NoAnalysis
  /\ streams = <<>>
  /\ listening = TRUE
  /\ calls = <<>>
  /\ analysisOutput = NoOutput
  /\ windowMinutes = ANALYSIS_WINDOW
  /\ NoQuery

\* The read stream a call of process() creates, with the call's rowNumber
\* and promise; stopped records that stop() was called while it was open.
NewStream ==
  [rowNumber |-> 1, state |-> "open", stopped |-> FALSE, promise |-> "pending"]

\* A call of process() has a stream that has not ended or failed and was not
\* stopped.
Running ==
  \E s \in 1..Len(streams) : streams[s].state = "open" /\ ~streams[s].stopped

\* What the rest of the model leaves alone while a processor is at work.
processorFrame ==
  << parsedLogEntries, pos, ipTimeWindowGroups, analysisStats, widx, scored,
     flaggedEntries, rows, rowNumber, parsedResults, analysisOutput,
     windowMinutes, llmVars >>

\* process() is called: rejected if isProcessing, else a stream is created.
CallProcess ==
  /\ pc = "processor"
  /\ Len(calls) < MaxCalls
  /\ IF isProcessing
       THEN /\ calls' = Append(calls, [rejected |-> TRUE, running |-> Running])
            /\ UNCHANGED << isProcessing, streams >>
       ELSE /\ Len(streams) < MaxRuns
            /\ isProcessing' = TRUE
            /\ streams' = Append(streams, NewStream)
            /\ calls' = Append(calls, [rejected |-> FALSE, running |-> Running])
  /\ UNCHANGED << pc, batchSize, currentBatch, totalProcessed, emitted,
                  analyses, warnings, listening, processorFrame >>

\* The 'data' handler of the stream s for its next row. The listener, if
\* any is attached, may throw while a batch is emitted; the catch of the
\* handler logs a warning and the row counter goes on.
OnData(s) ==
  /\ pc = "processor"
  /\ streams[s].state = "open"
  /\ streams[s].rowNumber <= Len(rows)
  /\ LET rn == streams[s].rowNumber
         normalizedEntry == normalizeLogEntry(rows[rn])
         pushed == Append(currentBatch, normalizedEntry.entry)
         full == normalizedEntry.valid /\ Len(pushed) >= batchSize
         batch == [type |-> "batch", batch |-> pushed]
     IN \E throws \in {t \in BOOLEAN : t => (full /\ listening)} :
          /\ IF ~normalizedEntry.valid
               THEN /\ warnings' = Append(warnings, rn)
                    /\ UNCHANGED << currentBatch, totalProcessed, emitted, analyses >>
               ELSE IF ~full
                 THEN /\ currentBatch' = pushed
                      /\ UNCHANGED << warnings, totalProcessed, emitted, analyses >>
               ELSE IF throws
                 THEN /\ currentBatch' = pushed
                      /\ emitted' = Append(emitted, batch)
                      /\ warnings' = Append(warnings, rn)
                      /\ UNCHANGED << totalProcessed, analyses >>
                 ELSE /\ emitted' = Append(emitted, batch)
                      /\ analyses' = IF listening
                                       THEN Append(analyses, analyzeLogsForDDoS(pushed))
                                       ELSE analyses
                      /\ totalProcessed' = totalProcessed + Len(pushed)
                      /\ currentBatch' = <<>>
                      /\ UNCHANGED warnings
          /\ streams' = [streams EXCEPT ![s].rowNumber = rn + 1]
  /\ UNCHANGED << pc, batchSize, isProcessing, listening, calls, processorFrame >>

\* The 'end' handler of the stream s. If the listener throws while the rest
\* is emitted, the handler is left at once: nothing is counted, 'complete'
\* is not emitted and the promise stays pending.
OnEnd(s) ==
  /\ pc = "processor"
  /\ streams[s].state = "open"
  /\ streams[s].rowNumber > Len(rows)
  /\ LET total == totalProcessed + Len(currentBatch)
         batch == [type |-> "batch", batch |-> currentBatch]
         done  == [type |-> "complete", totalProcessed |-> total]
     IN \E throws \in {t \in BOOLEAN : t => (Len(currentBatch) > 0 /\ listening)} :
          IF throws
            THEN /\ emitted' = Append(emitted, batch)
                 /\ streams' = [streams EXCEPT ![s].state = "ended"]
                 /\ UNCHANGED << totalProcessed, analyses >>
            ELSE /\ emitted' = IF Len(currentBatch) > 0
                                 THEN Append(Append(emitted, batch), done)
                                 ELSE Append(emitted, done)
                 /\ analyses' = IF Len(currentBatch) > 0 /\ listening
                                  THEN Append(analyses, analyzeLogsForDDoS(currentBatch))
                                  ELSE analyses
                 /\ totalProcessed' = total
                 /\ streams' = [streams EXCEPT ![s].state = "ended",
                                               ![s].promise = "resolved"]
  /\ UNCHANGED << pc, batchSize, currentBatch, isProcessing, warnings,
                  listening, calls, processorFrame >>

\* The 'error' handler of the stream s: the stream has failed.
OnError(s) ==
  /\ pc = "processor"
  /\ streams[s].state = "open"
  /\ isProcessing' = FALSE
  /\ streams' = [streams EXCEPT ![s].state = "failed",
                                ![s].promise = "rejected"]
  /\ UNCHANGED << pc, batchSize, currentBatch, totalProcessed, emitted,
                  analyses, warnings, listening, calls, processorFrame >>

\* stop(): the flag is cleared and the listeners on the processor removed.
\* The read streams are locals of process() and out of its reach.
Stop ==
  /\ pc = "processor"
  /\ isProcessing' = FALSE
  /\ listening' = FALSE
  /\ streams' = [s \in 1..Len(streams) |->
                   IF streams[s].state = "open"
                     THEN [streams[s] EXCEPT !.stopped = TRUE]
                     ELSE streams[s]]
  /\ UNCHANGED << pc, batchSize, currentBatch, totalProcessed, emitted,
                  analyses, warnings, calls, processorFrame >>

NextProcessor ==
  \/ CallProcess
  \/ \E s \in 1..Len(streams) : OnData(s)
  \/ \E s \in 1..Len(streams) : OnEnd(s)
  \/ \E s \in 1..Len(streams) : OnError(s)
  \/ Stop

SpecProcessor == ProcessorInit /\ [][NextProcessor]_vars

\* ------------------------------------------ groupByIPAndTime and its window

\* The window sizes DETECTION_CONFIG.ANALYSIS_WINDOW is set to: the one of
\* CONFIG, none, and its negative.
WindowSizes == {ANALYSIS_WINDOW, 0, 0 - ANALYSIS_WINDOW}

\* groupByIPAndTime is entered with a list of records under a window size.
ConfigInit ==
  /\ windowMinutes \in WindowSizes
  /\ parsedLogEntries \in SeqsUpTo(RecordDomain, MaxRecords)
  /\ pc = "window"
  /\ pos = 1
  /\ ipTimeWindowGroups = <<>>
  /\ analysisStats = NoStats
  /\ widx = 1
  /\ scored = <<>>
  /\ flaggedEntries = <<>>
  /\ NoInput
  /\ NoProcessor
  /\ streams = <<>>
  /\ listening = TRUE
  /\ calls = <<>>
  /\ analysisOutput = NoOutput
  /\ NoQuery

\* What groupByIPAndTime leaves alone.
configFrame ==
  << parsedLogEntries, analysisStats, widx, scored, flaggedEntries, parseVars,
     streamVars, processorVars, analysisOutput, windowMinutes, llmVars >>

\* One iteration of the forEach under the window size: there is no test of
\* the window size before it or in it.
ConfigGroupStep ==
  /\ pc = "window"
  /\ pos <= Len(parsedLogEntries)
  /\ ipTimeWindowGroups' =
       GroupInsert(ipTimeWindowGroups, parsedLogEntries[pos], windowMinutes)
  /\ pos' = pos + 1
  /\ UNCHANGED << pc, configFrame >>

\* return ipTimeWindowGroups
ConfigReturn ==
  /\ pc = "window"
  /\ pos > Len(parsedLogEntries)
  /\ pc' = "grouped"
  /\ UNCHANGED << pos, ipTimeWindowGroups, configFrame >>

NextConfig == ConfigGroupStep \/ ConfigReturn

SpecConfig == ConfigInit /\ [][NextConfig]_vars

\* The records grouped under every order: a benign flow and flows with known
\* attack labels in one window, records that differ in path, user agent,
\* response code and method, a second window, a second source and a
\* timestamp that is not a date.
GroupingDomain ==
  { Flow(TS_B, IP_PUBLIC, 249, BENIGN),
    Flow(TS_C, IP_PUBLIC, 600, NA),
    Flow(TS_A, IP_PRIVATE, 1, NA),
    Flow(TS_A, IP_PUBLIC, 1, L_Syn),
    Flow(TS_A, IP_PUBLIC, 1, DRDOS_DNS),
    Flow(NOT_A_DATE, IP_PUBLIC, 600, NA),
    LogEntry(TS_A, IP_PUBLIC, 1, NA, UA_MOZILLA, RC_200, M_GET, P_A),
    LogEntry(TS_A, IP_PUBLIC, 1, NA, UA_CURL, NA, NA, NA),
    LogEntry(TS_C, IP_PUBLIC, 1, NA, NA, RC_429, NA, NA) }

\* groupByIPAndTime is entered with a list of these records.
GroupingInit ==
  /\ ConfigInit
  /\ Range(parsedLogEntries) \subseteq GroupingDomain

SpecGrouping == GroupingInit /\ [][NextConfig]_vars

\* ------------------------------------------------------------------ queryLLM

RESPONSE_TEXT == <<"S","Y","N"," ","f","l","o","o","d">>

\* What the endpoint does with a request: it answers 200 with a response
\* text, 200 with no response text, or 500, or the fetch is rejected (no
\* connection, or the abort of the timeout).
Answers ==
  { [rejected |-> FALSE, ok |-> TRUE,  response |-> RESPONSE_TEXT],
    [rejected |-> FALSE, ok |-> TRUE,  response |-> <<>>],
    [rejected |-> FALSE, ok |-> FALSE, response |-> <<>>],
    [rejected |-> TRUE,  ok |-> FALSE, response |-> <<>>] }

\* Math.pow(base, exponent) for a natural exponent.
RECURSIVE Pow(_, _)
Pow(base, exponent) ==
  IF exponent = 0 THEN 1 ELSE base * Pow(base, exponent - 1)

\* queryLLM(promptText, options) is called. options.maxRetries is a natural
\* number, 0 standing for a missing one as well; CONFIG has no LLM_AGENTS
\* (agents = 0) unless a list of agents is put there, and currentAgentIndex
\* is where earlier calls left it.
LLMInit ==
  /\ \E option \in 0..MaxRetriesOption :
       maxRetries = IF option # 0 THEN option ELSE DEFAULT_MAX_RETRIES
  /\ attempt = 1
  /\ agents \in 0..MaxAgents
  /\ currentAgentIndex \in {i \in 0..MaxAgents : i = 0 \/ i < agents}
  /\ endpoint \in [1..maxRetries -> Answers]
  /\ requests = 0
  /\ delays = <<>>
  /\ llmOutcome = [state |-> "pending"]
  /\ pc = "llm"
  /\ NoAnalysis
  /\ NoInput
  /\ NoProcessor
  /\ streams = <<>>
  /\ listening = TRUE
  /\ calls = <<>>
  /\ analysisOutput = NoOutput
  /\ windowMinutes = ANALYSIS_WINDOW

\* What queryLLM leaves alone.
llmFrame ==
  << analysisVars, parseVars, streamVars, processorVars, analysisOutput,
     windowMinutes, maxRetries, agents, endpoint >>

\* The loop is at the top of an iteration.
Trying == pc = "llm" /\ llmOutcome.state = "pending" /\ attempt <= maxRetries

\* The try block reaches fetch: selectNextAgent() found CONFIG.LLM_AGENTS.
Fetches == agents > 0

\* The answer to the request the try block sends.
Answer == endpoint[requests + 1]

\* The error the try block throws, "none" when it returns: the TypeError of
\* selectNextAgent() reading CONFIG.LLM_AGENTS[currentAgentIndex] when there
\* is no list, the rejection of fetch, the HTTP error, the empty response.
TryError ==
  IF ~Fetches THEN "TypeError"
  ELSE IF Answer.rejected THEN "FetchError"
  ELSE IF ~Answer.ok THEN "HTTP error"
  ELSE IF Answer.response = <<>> THEN "Empty response from LLM"
  ELSE "none"

\* What the try block does to currentAgentIndex and the requests sent.
TryEffects ==
  IF Fetches
    THEN /\ currentAgentIndex' = (currentAgentIndex + 1) % agents
         /\ requests' = requests + 1
    ELSE UNCHANGED << currentAgentIndex, requests >>

\* An iteration whose try block returns result.response.
AttemptReturns ==
  /\ Trying
  /\ TryError = "none"
  /\ TryEffects
  /\ llmOutcome' = [state |-> "returned", response |-> Answer.response]
  /\ UNCHANGED << attempt, delays, llmFrame >>

\* An iteration before the last whose try block throws: the catch block
\* waits Math.pow(2, attempt) * 1000 milliseconds and the loop goes on.
AttemptFails ==
  /\ Trying
  /\ TryError # "none"
  /\ attempt # maxRetries
  /\ TryEffects
  /\ delays' = Append(delays, Pow(BACKOFF_BASE, attempt) * BACKOFF_UNIT)
  /\ attempt' = attempt + 1
  /\ UNCHANGED << llmOutcome, llmFrame >>

\* The last iteration when its try block throws: the catch block throws.
AttemptThrows ==
  /\ Trying
  /\ TryError # "none"
  /\ attempt = maxRetries
  /\ TryEffects
  /\ llmOutcome' = [state |-> "threw", attempts |-> maxRetries, cause |-> TryError]
  /\ UNCHANGED << attempt, delays, llmFrame >>

NextLLM == AttemptReturns \/ AttemptFails \/ AttemptThrows

SpecLLM == LLMInit /\ [][NextLLM]_vars

\* ---------------------------------------------------------------- properties

Groups == ObjectValues(ipTimeWindowGroups)

\* The records the forEach of groupByIPAndTime has handled so far.
Grouped == SubSeq(parsedLogEntries, 1, pos - 1)

Count(x, s) == Cardinality({i \in 1..Len(s) : s[i] = x})

\* How often a record occurs in the entries lists of all windows together.
CountInWindows(x) ==
  Cardinality({p \in UNION {{<<g, j>> : j \in 1..Len(Groups[g].entries)} :
                               g \in 1..Len(Groups)} :
                 Groups[p[1]].entries[p[2]] = x})

RECURSIVE SumRequestCount(_)
SumRequestCount(entries) ==
  IF entries = <<>> THEN 0
  ELSE Head(entries).requestCount + SumRequestCount(Tail(entries))

\* C1: every record handed to groupByIPAndTime is in the entries list of
\* exactly one window (as often as it occurs in the input: none lost, none
\* duplicated, none invented), under the key of its own source address and
\* window, and every window's totalRequests is the sum of requestCount over
\* its entries.
C1_EveryRecordInExactlyOneWindow ==
  /\ \A x \in Range(parsedLogEntries) : CountInWindows(x) = Count(x, Grouped)
  /\ \A g \in 1..Len(Groups) :
       /\ Groups[g].totalRequests = SumRequestCount(Groups[g].entries)
       /\ Groups[g].entries # <<>>
       /\ \A j \in 1..Len(Groups[g].entries) :
            /\ Groups[g].entries[j] \in Range(Grouped)
            /\ WindowKey(Groups[g].entries[j], ANALYSIS_WINDOW)
                 = ipTimeWindowGroups[g].k
  /\ \A g, h \in 1..Len(Groups) :
       ipTimeWindowGroups[g].k = ipTimeWindowGroups[h].k => g = h

\* Three records grouped into two windows, one of them holding two records.
C1_Witness ==
  /\ pos = 4
  /\ Len(Groups) = 2
  /\ \E g \in 1..Len(Groups) : Len(Groups[g].entries) = 2

\* The window a flagged entry reports, read from its first sampled record.
FlaggedKey(f) == WindowKey(f.entries[1], ANALYSIS_WINDOW)

FlaggedFor(key) ==
  {n \in 1..Len(flaggedEntries) : FlaggedKey(flaggedEntries[n]) = key}

\* C3: a scored window has a flagged entry if and only if its total risk is
\* at least 2, and then exactly one, carrying that risk; a window of risk 0
\* or 1 has none, and neither has a window that is not scored yet.
C3_FlaggedIffRiskAtLeastTwo ==
  \A g \in 1..Len(Groups) :
    LET hits == FlaggedFor(ipTimeWindowGroups[g].k)
    IN IF g <= Len(scored) /\ scored[g].riskScore >= 2
         THEN /\ Cardinality(hits) = 1
              /\ \A n \in hits : flaggedEntries[n].riskScore = scored[g].riskScore
         ELSE hits = {}

\* A finished run with a window of risk exactly 1 (not flagged) and a window
\* of risk exactly 2 (flagged).
C3_Witness ==
  /\ pc = "done"
  /\ \E g, h \in 1..Len(scored) :
       /\ scored[g].riskScore = 1
       /\ FlaggedFor(ipTimeWindowGroups[g].k) = {}
       /\ scored[h].riskScore = 2
       /\ FlaggedFor(ipTimeWindowGroups[h].k) # {}

\* The risk the supervised pass added to a scored window.
LabelIncrement(g) == scored[g].riskScore - scored[g].ruleRisk

KnownLabelsLower ==
  {toLowerCase(KNOWN_DDOS_LABELS[i]) : i \in 1..Len(KNOWN_DDOS_LABELS)}

\* The distinct labels of a window that are configured known-attack labels,
\* compared without regard to case.
KnownLabelsOf(group) ==
  {l \in Range(group.labels) : toLowerCase(l) \in KnownLabelsLower}

\* The distinct labels of a window that contain the text DrDoS_DNS.
DnsLabelsOf(group) == {l \in Range(group.labels) : includes(l, DRDOS_DNS)}

C7_FrequencyRules ==
  \A g \in 1..Len(scored) :
    LET total == Groups[g].totalRequests
        f     == scored[g].requestFrequency
    IN /\ f.num = total /\ f.den = ANALYSIS_WINDOW
       /\ 1 \in scored[g].fired
            <=> total >= HIGH_FREQUENCY_THRESHOLD * ANALYSIS_WINDOW
       /\ 2 \in scored[g].fired
            <=> /\ total >= MEDIUM_FREQUENCY_THRESHOLD * ANALYSIS_WINDOW
                /\ total < HIGH_FREQUENCY_THRESHOLD * ANALYSIS_WINDOW
       /\ ~(1 \in scored[g].fired /\ 2 \in scored[g].fired)
       /\ total = 500 =>
            /\ f.num = 100 * f.den
            /\ 1 \in scored[g].fired /\ 2 \notin scored[g].fired
            /\ scored[g].ruleRisk >= 3
            /\ scored[g].suspiciousIndicators[1]
                 = MSG_HIGH \o <<"1","0","0",".","0","0">> \o MSG_REQ_MIN

\* A finished run with a window of exactly 500 requests, made of two records
\* of 250, in which the high rule fired.
C7_Witness ==
  /\ pc = "done"
  /\ \E g \in 1..Len(scored) :
       /\ Groups[g].totalRequests = 500
       /\ Len(Groups[g].entries) = 2
       /\ 1 \in scored[g].fired

\* The rules whose predicate holds for a window, in registry order.
HoldingRules(group, f) ==
  SelectSeq([i \in 1..NumRules |-> i], LAMBDA i : RuleCheck(i, group, f))

RECURSIVE SumRisk(_)
SumRisk(rs) == IF rs = <<>> THEN 0 ELSE RuleRisk(Head(rs)) + SumRisk(Tail(rs))

\* C8: for every scored window the risk is the sum of the weights of all
\* rules whose predicate holds plus 5 for each label-driven increment, and
\* suspiciousIndicators is one message per such rule in registry order
\* followed by one message per label-driven increment; a window of 600
\* requests with no other signal has risk 3, one indicator, and is flagged.
C8_RulesAreAdditive ==
  \A g \in 1..Len(scored) :
    LET group == Groups[g]
        f     == calculateRequestFrequency(group.totalRequests, ANALYSIS_WINDOW)
        hold  == HoldingRules(group, f)
        dns   == Cardinality(DnsLabelsOf(group))
    IN /\ scored[g].fired = Range(hold)
       /\ scored[g].riskScore = SumRisk(hold) + 5 * dns
       /\ scored[g].suspiciousIndicators
            = [i \in 1..Len(hold) |-> RuleMessage(hold[i], group, f)]
                \o [i \in 1..dns |-> MSG_DRDOS_DNS]
       /\ (group.totalRequests = 600 /\ hold = <<1>> /\ dns = 0) =>
            /\ scored[g].riskScore = 3
            /\ Len(scored[g].suspiciousIndicators) = 1
            /\ Cardinality(FlaggedFor(ipTimeWindowGroups[g].k)) = 1

\* A finished run with a window in which five rules fired at once and a
\* window of 600 requests in which only the high-frequency rule fired.
C8_Witness ==
  /\ pc = "done"
  /\ \E g, h \in 1..Len(scored) :
       /\ scored[g].fired = {2, 3, 4, 5, 7}
       /\ scored[g].riskScore = 7
       /\ Groups[h].totalRequests = 600
       /\ scored[h].fired = {1}
       /\ scored[h].riskScore = 3

\* The place in the input of the first record of a window.
FirstRecordOf(key) ==
  CHOOSE i \in 1..Len(parsedLogEntries) :
    /\ WindowKey(parsedLogEntries[i], ANALYSIS_WINDOW) = key
    /\ \A j \in 1..(i - 1) :
         WindowKey(parsedLogEntries[j], ANALYSIS_WINDOW) # key

\* C9: the returned flagged list is in non-increasing order of risk, and
\* flagged windows of equal risk are in the order in which their keys were
\* first created, which is the order of their first records in the input.
C9_RankedByRiskThenFirstSeen ==
  pc = "done" =>
    \A m, n \in 1..Len(flaggedEntries) :
      m < n =>
        /\ flaggedEntries[m].riskScore >= flaggedEntries[n].riskScore
        /\ flaggedEntries[m].riskScore = flaggedEntries[n].riskScore =>
             FirstRecordOf(FlaggedKey(flaggedEntries[m]))
               < FirstRecordOf(FlaggedKey(flaggedEntries[n]))

\* Three flagged windows: the one created first has the lowest risk and ends
\* last, the other two tie and keep their order of creation.
C9_Witness ==
  /\ pc = "done"
  /\ Len(flaggedEntries) = 3
  /\ flaggedEntries[1].riskScore = flaggedEntries[2].riskScore
  /\ flaggedEntries[2].riskScore > flaggedEntries[3].riskScore
  /\ FirstRecordOf(FlaggedKey(flaggedEntries[3])) = 1

\* The number of scored windows in which a rule fired.
FiredCount(i) == Cardinality({g \in 1..Len(scored) : i \in scored[g].fired})

Handled == 1..(rowNumber - 1)
Skipped == Range(warnings)
Accepted == Handled \ Skipped

\* The place in parsedResults of the record of an accepted row.
RankOf(i) == Cardinality({j \in Accepted : j <= i})

\* A column that is in the row and is not empty after trimming.
Filled(cell) == cell.present /\ trim(cell.text) # <<>>

\* A filled column whose trimmed text is not the given sentinel.
Usable(cell, sentinel) == Filled(cell) /\ trim(cell.text) # sentinel

\* C5: a row is accepted if and only if its timestamp, source-address and
\* destination-address columns are present, non-empty after trimming and not
\* the sentinel text (N/A for the timestamp, UNKNOWN for an address); the
\* record of an accepted row carries the trimmed timestamp and addresses, and
\* the trimmed label or N/A when the label is absent or blank; a row without
\* a source address is skipped with a warning whatever its other fields
\* hold, and the rows after it are still handled.
C5_AcceptedIffRequiredUsable ==
  /\ Len(parsedResults) = Cardinality(Accepted)
  /\ \A i \in Handled :
       /\ i \in Accepted <=>
            /\ Usable(rows[i].TIMESTAMP, NA)
            /\ Usable(rows[i].SOURCE_IP, UNKNOWN)
            /\ Usable(rows[i].DEST_IP, UNKNOWN)
       /\ i \in Accepted =>
            LET r == parsedResults[RankOf(i)]
            IN /\ r.timestamp = trim(rows[i].TIMESTAMP.text)
               /\ r.sourceIP = trim(rows[i].SOURCE_IP.text)
               /\ r.destinationIP = trim(rows[i].DEST_IP.text)
               /\ r.label = IF Filled(rows[i].LABEL)
                              THEN trim(rows[i].LABEL.text) ELSE NA
       /\ ~Filled(rows[i].SOURCE_IP) => i \in Skipped
  /\ pc = "parsed" => Handled = 1..Len(rows)

\* A finished parse in which a row without a source address was skipped and
\* a later row, with white space around its cells, was accepted.
C5_Witness ==
  /\ pc = "parsed"
  /\ \E i, j \in Handled :
       /\ i < j
       /\ ~Filled(rows[i].SOURCE_IP)
       /\ i \in Skipped
       /\ j \in Accepted
       /\ trim(rows[j].SOURCE_IP.text) # rows[j].SOURCE_IP.text
       /\ parsedResults[RankOf(j)].sourceIP = trim(rows[j].SOURCE_IP.text)

\* C5 as stated: acceptance if and only if the three columns are present and
\* non-empty after trimming, and the four text fields of an accepted row's
\* record equal the trimmed inputs.
C5_AcceptedIffNonEmpty ==
  \A i \in Handled :
    /\ i \in Accepted <=>
         /\ Filled(rows[i].TIMESTAMP)
         /\ Filled(rows[i].SOURCE_IP)
         /\ Filled(rows[i].DEST_IP)
    /\ i \in Accepted =>
         LET r == parsedResults[RankOf(i)]
         IN /\ r.timestamp = trim(rows[i].TIMESTAMP.text)
            /\ r.sourceIP = trim(rows[i].SOURCE_IP.text)
            /\ r.destinationIP = trim(rows[i].DEST_IP.text)
            /\ rows[i].LABEL.present => r.label = trim(rows[i].LABEL.text)
    /\ ~Filled(rows[i].SOURCE_IP) => i \in Skipped

\* C6: every record the normalizer produced has a request count of at least
\* 1 and a duration and a byte count that are numbers not below 0.
C6_CountPositiveSizesNonNegative ==
  \A k \in 1..Len(parsedResults) :
    /\ parsedResults[k].requestCount >= 1
    /\ ~parsedResults[k].duration.nan
    /\ parsedResults[k].duration.num >= 0
    /\ ~parsedResults[k].bytes.nan
    /\ parsedResults[k].bytes.num >= 0

\* ------------------------------------ properties of the streaming adapter

\* The batches emitted so far, in order.
Batches ==
  [n \in 1..Len(analyses) |->
     SelectSeq(emitted, LAMBDA e : e.type = "batch")[n].batch]

RECURSIVE Concat(_)
Concat(ss) == IF ss = <<>> THEN <<>> ELSE Head(ss) \o Concat(Tail(ss))

\* The flagged windows of a result, each with its risk score.
FlaggedScores(result) ==
  { << FlaggedKey(result.flaggedEntries[n]), result.flaggedEntries[n].riskScore >> :
      n \in 1..Len(result.flaggedEntries) }

\* C2: when the adapter has completed, the flagged windows and risk scores
\* that the calls of analyzeLogsForDDoS on the emitted batches yield, taken
\* together, are those of one call on all the records at once.
C2_BatchSizeIndependence ==
  pc = "complete" =>
    UNION {FlaggedScores(analyses[n]) : n \in 1..Len(analyses)}
      = FlaggedScores(analyzeLogsForDDoS(Concat(Batches)))

\* The rows among the first n of the file that pass the validity check, as
\* the records the normalizer makes of them, in input order.
RECURSIVE ValidRecords(_)
ValidRecords(n) ==
  IF n = 0 THEN <<>>
  ELSE IF /\ Usable(rows[n].TIMESTAMP, NA)
          /\ Usable(rows[n].SOURCE_IP, UNKNOWN)
          /\ Usable(rows[n].DEST_IP, UNKNOWN)
         THEN Append(ValidRecords(n - 1), NormalizedFields(rows[n]))
         ELSE ValidRecords(n - 1)

\* The events of a type among those emitted.
EventsOf(type) == SelectSeq(emitted, LAMBDA e : e.type = type)

\* C11: with a listener that does not throw, the batches emitted so far,
\* one after the other, followed by the records still waiting, are the valid
\* rows read so far in input order (so a valid record is in exactly one batch
\* and a rejected row in none); every batch emitted while reading holds
\* exactly batchSize records; at the end of the input a last batch with the
\* remaining records is emitted if and only if there are any; 'complete' is
\* emitted once, after the last batch, and carries the number of valid rows.
C11_BatchesInOrderThenComplete ==
  /\ pc = "stream" =>
       /\ Concat(Batches) \o currentBatch = ValidRecords(rowNumber - 1)
       /\ \A n \in 1..Len(Batches) : Len(Batches[n]) = batchSize
       /\ Len(currentBatch) < batchSize
       /\ EventsOf("complete") = <<>>
  /\ pc = "complete" =>
       /\ Concat(Batches) = ValidRecords(Len(rows))
       /\ \A n \in 1..(Len(Batches) - 1) : Len(Batches[n]) = batchSize
       /\ \A n \in 1..Len(Batches) : Len(Batches[n]) \in 1..batchSize
       /\ Len(Batches) * batchSize < Len(ValidRecords(Len(rows))) + batchSize
       /\ Len(EventsOf("complete")) = 1
       /\ emitted[Len(emitted)] =
            [type |-> "complete",
             totalProcessed |-> Len(ValidRecords(Len(rows)))]
       /\ totalProcessed = Len(ValidRecords(Len(rows)))

\* A completed run with batchSize 2 over a file of three valid rows: a full
\* batch, then the rest, then 'complete'.
C11_Witness ==
  /\ pc = "complete"
  /\ batchSize = 2
  /\ Len(Batches) = 2
  /\ Len(Batches[1]) = 2
  /\ Len(Batches[2]) = 1
  /\ emitted[Len(emitted)].type = "complete"
  /\ totalProcessed = 3

\* ----------------------------------- properties of process() and stop()

\* C12: once stop() has been called on a running processor, the stream of
\* that run is inert: it reads no further row, emits nothing at the end of
\* the input and is no longer open.
C12_StoppedStreamIsInert ==
  [][\A s \in 1..Len(streams) :
       streams[s].stopped =>
         /\ streams'[s] = streams[s]
         /\ streams[s].state # "open"]_vars

\* C13, the streaming path: when the only stream of a processor has failed,
\* nothing built from the rows read before the failure is left: no batch has
\* reached the listener and none waits in currentBatch.
C13_NothingRetainedAfterFailure ==
  (Len(streams) = 1 /\ streams[1].state = "failed") =>
    /\ analyses = <<>>
    /\ EventsOf("batch") = <<>>
    /\ currentBatch = <<>>
    /\ totalProcessed = 0

\* C17: a call of process() is rejected if and only if, at the time of the
\* call, an earlier call's run was in progress: its stream had not reached
\* the end of the input, had not failed and had not been stopped.
C17_RejectedIffRunInProgress ==
  \A c \in 1..Len(calls) : calls[c].rejected <=> calls[c].running

\* The valid rows read so far by all streams together.
RECURSIVE RecordsRead(_)
RecordsRead(s) ==
  IF s = 0 THEN 0
  ELSE RecordsRead(s - 1) + Len(ValidRecords(streams[s].rowNumber - 1))

\* The batches of all 'batch' events so far.
EmittedBatches ==
  [n \in 1..Len(EventsOf("batch")) |-> EventsOf("batch")[n].batch]

\* C20: every emitted batch holds at most batchSize records, and the batches
\* together carry no more records than valid rows were read, so none is
\* carried twice, whether or not the listener throws.
C20_BatchesBoundedAndDisjoint ==
  /\ \A n \in 1..Len(EmittedBatches) : Len(EmittedBatches[n]) <= batchSize
  /\ Len(Concat(EmittedBatches)) <= RecordsRead(Len(streams))

\* ------------------------------------------- properties of the window size

\* C14: under a window size that is not positive no record is processed and
\* no window aggregate is produced.
C14_InvalidWindowProducesNothing ==
  windowMinutes <= 0 => (pos = 1 /\ ipTimeWindowGroups = <<>>)

\* ------------------------------------------------ properties of runAnalysis

\* The analysis has been entered.
Analysing == pc \in {"group", "score", "done"} \/ analysisOutput.present

\* The records in the entries lists of all windows, as a set.
RecordsInWindows == UNION {Range(Groups[g].entries) : g \in 1..Len(Groups)}

\* C15: a rejected row does not end the run: unless the source fails, every
\* row is handled. The analysis is entered with the rows that passed the
\* validity check and no others, totalEntries is their number whether or not
\* their windows are flagged, every record in a window aggregate is one of
\* them, and the output stored at the end is the output of an analysis of
\* the valid rows alone, so a rejected row has no part in any counter or
\* flagged entry.
C15_RejectedRowsCountNowhere ==
  /\ pc \notin {"parse", "rejected", "threw"} =>
       /\ rowNumber = Len(rows) + 1
       /\ parsedResults = ValidRecords(Len(rows))
  /\ Analysing =>
       /\ parsedLogEntries = ValidRecords(Len(rows))
       /\ RecordsInWindows \subseteq Range(ValidRecords(Len(rows)))
  /\ pc \in {"score", "done"} =>
       analysisStats.totalEntries = Len(ValidRecords(Len(rows)))
  /\ analysisOutput.present =>
       /\ analysisOutput.analysisStats.totalEntries = Len(ValidRecords(Len(rows)))
       /\ analysisOutput.flaggedEntries =
            analyzeLogsForDDoS(ValidRecords(Len(rows))).flaggedEntries
       /\ analysisOutput.analysisStats =
            analyzeLogsForDDoS(ValidRecords(Len(rows))).analysisStats

\* A finished run over a rejected row that carries an attack label, a benign
\* flow whose window has risk 0 and a flow whose window is flagged: two
\* entries are counted, one warning was logged, one window is flagged.
C15_Witness ==
  /\ pc = "returned"
  /\ analysisOutput.present
  /\ Len(rows) = 3
  /\ warnings = <<1>>
  /\ rows[1].LABEL.text = DRDOS_DNS
  /\ analysisOutput.analysisStats.totalEntries = 2
  /\ analysisOutput.analysisStats.knownDDoSAttacks = 0
  /\ Len(scored) = 2
  /\ \E g \in 1..2 : scored[g].riskScore = 0
  /\ Len(analysisOutput.flaggedEntries) = 1

\* A row of a flow of one packet from the public source in the first window
\* whose user-agent cell contains curl.
CurlRow(row) ==
  /\ row.USER_AGENT.present
  /\ includes(toLowerCase(row.USER_AGENT.text), <<"c","u","r","l">>)
  /\ row.SOURCE_IP.text = IP_PUBLIC
  /\ row.TIMESTAMP.text \in {TS_A, TS_B}
  /\ row.FWD_PACKETS.text = T_1

\* C16: a run over rows that are all such flows returns one flagged window
\* with risk 2 and exactly one indicator, which names the user agent.
C16_CurlRowsFlagged ==
  (pc = "returned" /\ rows # <<>> /\ \A i \in 1..Len(rows) : CurlRow(rows[i])) =>
    /\ analysisOutput.present
    /\ Len(analysisOutput.flaggedEntries) = 1
    /\ analysisOutput.flaggedEntries[1].riskScore = 2
    /\ Len(analysisOutput.flaggedEntries[1].suspiciousIndicators) = 1
    /\ includes(analysisOutput.flaggedEntries[1].suspiciousIndicators[1],
                <<"c","u","r","l">>)

\* ------------------------------------------- order independence of grouping

\* The permutations of 1..n, each a reordering of a list of n records.
Orders(n) ==
  {f \in [1..n -> 1..n] : \A i, j \in 1..n : f[i] = f[j] => i = j}

\* The list with its elements rearranged by f.
Permuted(list, f) == [i \in 1..Len(list) |-> list[f[i]]]

\* A tally object as the set of its key/count pairs.
TallyPairs(obj) == {<<obj[i].k, obj[i].v>> : i \in 1..Len(obj)}

\* What a window aggregate holds apart from the order of insertion: every
\* field but the entries list, the Sets as sets and the tallies as pairs.
AggregateContents(g) ==
  [ sourceIP           |-> g.sourceIP,
    timeWindow         |-> g.timeWindow,
    totalRequests      |-> g.totalRequests,
    uniquePaths        |-> Range(g.uniquePaths),
    uniqueUserAgents   |-> Range(g.uniqueUserAgents),
    labels             |-> Range(g.labels),
    responseCodes      |-> TallyPairs(g.responseCodes),
    methods            |-> TallyPairs(g.methods),
    hasKnownDDoSAttack |-> g.hasKnownDDoSAttack ]

\* The window keys of a grouping, each with the contents of its aggregate.
GroupingContents(groupsObj) ==
  {<<groupsObj[i].k, AggregateContents(groupsObj[i].v)>> : i \in 1..Len(groupsObj)}

\* C18: when groupByIPAndTime returns, grouping any permutation of the same
\* records under the same window size gives the same window keys and, under
\* each key, the same totalRequests, the same sets of paths, user agents and
\* labels, the same response-code and method tallies and the same
\* known-attack flag, and the same records in the entries list.
C18_GroupingOrderIndependent ==
  pc = "grouped" =>
    \A f \in Orders(Len(parsedLogEntries)) :
      LET other == groupByIPAndTime(Permuted(parsedLogEntries, f), windowMinutes)
      IN /\ GroupingContents(other) = GroupingContents(ipTimeWindowGroups)
         /\ \A i \in 1..Len(other) :
              Range(other[i].v.entries)
                = Range(ObjGet(ipTimeWindowGroups, other[i].k).entries)

\* Three records grouped into one five-minute window, a benign one after one
\* with a known attack label, for which another order of the same records
\* gives a different entries list and a different insertion order of the
\* labels.
C18_Witness ==
  /\ pc = "grouped"
  /\ windowMinutes = ANALYSIS_WINDOW
  /\ Len(parsedLogEntries) = 3
  /\ Len(ipTimeWindowGroups) = 1
  /\ ipTimeWindowGroups[1].v.hasKnownDDoSAttack
  /\ parsedLogEntries[3].label = BENIGN
  /\ isKnownDDoSAttack(parsedLogEntries[1].label)
  /\ \E f \in Orders(3) :
       LET other == groupByIPAndTime(Permuted(parsedLogEntries, f), windowMinutes)
       IN /\ other[1].v.entries # ipTimeWindowGroups[1].v.entries
          /\ other[1].v.labels # ipTimeWindowGroups[1].v.labels

\* ------------------------------------------------------ properties of queryLLM

\* queryLLM has returned or thrown.
Settled == llmOutcome.state \in {"returned", "threw"}

\* The back-off delays after the first n failed attempts, in milliseconds.
Backoff(n) == [i \in 1..n |-> Pow(BACKOFF_BASE, i) * BACKOFF_UNIT]

\* C19: queryLLM makes at most maxRetries attempts; it has waited 2^i seconds
\* after each failed attempt i that was not the last; it returns the response
\* of the first successful attempt and throws after maxRetries failures; and
\* when the endpoint would answer the first attempt with a non-empty
\* response, that response is what it returns.
C19_BoundedRetryReturnsFirstResponse ==
  pc = "llm" =>
    /\ attempt <= maxRetries /\ requests <= attempt
    /\ delays = Backoff(attempt - 1)
    /\ llmOutcome.state = "threw" => attempt = maxRetries
    /\ llmOutcome.state = "returned" =>
         /\ requests = attempt
         /\ llmOutcome.response = endpoint[requests].response
         /\ llmOutcome.response # <<>>
    /\ (Settled /\ endpoint[1].ok /\ endpoint[1].response # <<>>) =>
         llmOutcome = [state |-> "returned", response |-> endpoint[1].response]

\* -------------------------------------------- the application-layer fields

\* The four application-layer fields of a record are the sentinel.
SentinelFields(e) ==
  /\ e.userAgent = NA
  /\ e.responseCode = NA
  /\ e.method = NA
  /\ e.path = NA

\* The rules that read the application-layer fields: suspicious user agent,
\* suspicious response code, path diversity, suspicious method.
ApplicationRules == {3, 5, 6, 7}

\* The weight of a rule when it fired in a scored window, else 0.
FiredRisk(g, i) == IF i \in scored[g].fired THEN RuleRisk(i) ELSE 0

====
